---------------------------- MODULE Spec2Model ----------------------------
(***************************************************************************)
(* Model of the incremental dependency / caching engine of                 *)
(* docker-compose-templer: CachedFile (file registry, content cache,       *)
(* watches), ContextChainElement / ContextChain (memoized merged           *)
(* contexts), Template (render unit), Definition (manifest, unit map) and  *)
(* AutoRenderer (poll loop).                                               *)
(*                                                                         *)
(* Python values are tagged records [k |-> kind, v |-> payload].  A dict   *)
(* that the code iterates (the data of a variable source, the body of a    *)
(* template) is a sequence of <<key, value>> pairs in iteration order; a   *)
(* merged context, which the code only looks keys up in, is a function     *)
(* from keys to values.  All paths live in the directory of the manifest:  *)
(* a path name stands for os.path.join(dirname(manifest), name).           *)
(***************************************************************************)
EXTENDS Integers, Sequences, FiniteSets, TLC

\* Template instances (with their chains) alive at the same time
MaxInst == 4

\* the path of the definition file given on the command line
DefinitionPath == "M"

(***************************************************************************)
(* Values                                                                  *)
(***************************************************************************)
None == [k |-> "none", v |-> "none"]

\* a Python str without template markup
S(s) == [k |-> "str", v |-> s]

\* a Python int
I(n) == [k |-> "int", v |-> n]

\* a Python bool
B(b) == [k |-> "bool", v |-> b]

\* the Python str "{{ x }}"
Tpl(x) == [k |-> "tpl", v |-> x]

\* an instance of JinjaRenderer.Omit
Omit == [k |-> "omit", v |-> "omit"]

\* JinjaRenderer.omit_placeholder, a str
omit_placeholder == "__omit_place_holder__"

\* string.find(JinjaRenderer.omit_placeholder) != -1, for the strs of the model
HasOmit(string) == string \in {omit_placeholder, "x__omit_place_holder__"}

\* an instance of a subclass of str, as the round-trip loader of ruamel.yaml
\* makes one for a block scalar: `type(value) is str` is false for it
ScalarString(s) == [k |-> "scalarstring", v |-> s]

\* the empty dict
EmptyDict == <<>>

\* str(n) and its inverse for the ints of the model
IntStr == (0 :> "0") @@ (1 :> "1") @@ (2 :> "2")

IsIntStr(s) == \E n \in DOMAIN IntStr : IntStr[n] = s

StrInt(s) == CHOOSE n \in DOMAIN IntStr : IntStr[n] = s

\* str(value), as Jinja prints a value of the context
ToStr(val) ==
    CASE val.k = "str"  -> val.v
      [] val.k = "int"  -> IntStr[val.v]
      [] val.k = "bool" -> IF val.v THEN "True" ELSE "False"

\* distutils.util.strtobool on the lower-cased string
TrueStrings == {"y", "yes", "t", "true", "on", "1"}
FalseStrings == {"n", "no", "f", "false", "off", "0"}

Lower(s) == CASE s = "True" -> "true" [] s = "False" -> "false" [] OTHER -> s

_evaluate_string(string) ==
    IF IsIntStr(string) THEN I(StrInt(string))
    ELSE IF string \in {"True", "False"} THEN B(string = "True")
    ELSE IF Lower(string) \in TrueStrings THEN B(TRUE)
    ELSE IF Lower(string) \in FalseStrings THEN B(FALSE)
    ELSE S(string)

(***************************************************************************)
(* utils.hash, utils.merge_dicts                                           *)
(***************************************************************************)
\* sha1 is taken to be injective: the digest of x is the tagged x.  A dict is
\* dumped with sort_keys=True, so its digest does not depend on key order.
AsMap(pairs) ==
    [key \in {pairs[j][1] : j \in 1..Len(pairs)} |->
        (pairs[CHOOSE j \in 1..Len(pairs) : pairs[j][1] = key])[2]]

hash(object) == [k |-> "sha1", v |-> object]

IsDict(val) == val.k = "dict"

\* merge_dicts(x, y) raises TypeError: dict(x, **y) with y neither dict nor None
RECURSIVE MergeFails(_, _)
MergeFails(x, y) ==
    \E key \in DOMAIN x \cap DOMAIN y :
        /\ IsDict(x[key])
        /\ y[key].k # "none"
        /\ IsDict(y[key]) => MergeFails(x[key].v, y[key].v)

RECURSIVE merge_dicts(_, _)
merge_dicts(x, y) ==
    [key \in DOMAIN x \cup DOMAIN y |->
        IF key \notin DOMAIN y THEN x[key]
        ELSE IF key \in DOMAIN x /\ IsDict(x[key])
             THEN IF y[key].k = "none" THEN x[key]
                  ELSE [k |-> "dict", v |-> merge_dicts(x[key].v, y[key].v)]
             ELSE y[key]]

(***************************************************************************)
(* JinjaRenderer                                                           *)
(***************************************************************************)
\* context['omit'] = JinjaRenderer.omit_placeholder
WithOmit(context) == ("omit" :> S(omit_placeholder)) @@ context

\* render_string raises: StrictUndefined on a name the context lacks
RenderStringFails(template_string, context) ==
    /\ template_string.k = "tpl"
    /\ template_string.v \notin DOMAIN WithOmit(context)

\* the text render_string returns
render_string(template_string, context) ==
    IF template_string.k = "tpl"
    THEN ToStr(WithOmit(context)[template_string.v])
    ELSE template_string.v

\* some str is rendered below value, so render_string has put 'omit' into the context
RECURSIVE HasStr(_)
HasStr(value) ==
    CASE value.k \in {"str", "tpl"} -> TRUE
      [] value.k = "list" -> \E j \in 1..Len(value.v) : HasStr(value.v[j])
      [] value.k = "dict" -> \E j \in 1..Len(value.v) : HasStr(value.v[j][2])
      [] OTHER -> FALSE

RECURSIVE RenderRecursivelyFails(_, _)
RenderRecursivelyFails(value, context) ==
    CASE value.k \in {"str", "tpl"} -> RenderStringFails(value, context)
      [] value.k = "list" ->
            \E j \in 1..Len(value.v) : RenderRecursivelyFails(value.v[j], context)
      [] value.k = "dict" ->
            \E j \in 1..Len(value.v) : RenderRecursivelyFails(value.v[j][2], context)
      [] OTHER -> FALSE

\* a loop over the items that appends every processed item, Omit too
KeepOmit(items) == items

\* the items of a sequence that are not Omit, in order
RECURSIVE DropOmit(_)
DropOmit(items) ==
    IF items = <<>> THEN <<>>
    ELSE IF Head(items) = Omit THEN DropOmit(Tail(items))
    ELSE <<Head(items)>> \o DropOmit(Tail(items))

RECURSIVE _render_recursively(_, _)
_render_recursively(value, context) ==
    CASE value.k = "none" -> None
      [] value.k = "str" -> value
      [] value.k = "tpl" ->
            LET rendered_value == render_string(value, context)
            IN  IF HasOmit(rendered_value) THEN Omit
                ELSE _evaluate_string(rendered_value)
      [] value.k = "list" ->
            [k |-> "list",
             v |-> DropOmit([j \in 1..Len(value.v) |->
                                _render_recursively(value.v[j], context)])]
      [] value.k = "dict" ->
            LET kept == {j \in 1..Len(value.v) :
                            _render_recursively(value.v[j][2], context) # Omit}
            IN  [k |-> "dict",
                 v |-> [key \in {value.v[j][1] : j \in kept} |->
                          _render_recursively(
                              (value.v[CHOOSE j \in kept : value.v[j][1] = key])[2],
                              context)]]
      [] OTHER -> value

\* render_dict_and_add_to_context from the j-th item of the_dict on; new_context is
\* the context built so far.  [ok |-> FALSE] stands for the exception raised.
RECURSIVE RenderDictFrom(_, _, _)
RenderDictFrom(the_dict, j, new_context) ==
    IF j > Len(the_dict) THEN [ok |-> TRUE, v |-> new_context]
    ELSE LET key == the_dict[j][1]
             value == the_dict[j][2]
         IN  IF RenderRecursivelyFails(value, new_context) THEN [ok |-> FALSE, v |-> EmptyDict]
             ELSE LET processed_value == _render_recursively(value, new_context)
                      ctx == IF HasStr(value) THEN WithOmit(new_context) ELSE new_context
                  IN  IF processed_value = Omit THEN RenderDictFrom(the_dict, j + 1, ctx)
                      ELSE IF MergeFails(ctx, key :> processed_value)
                           THEN [ok |-> FALSE, v |-> EmptyDict]
                           ELSE RenderDictFrom(the_dict, j + 1,
                                               merge_dicts(ctx, key :> processed_value))

render_dict_and_add_to_context(the_dict, context) == RenderDictFrom(the_dict, 1, context)

(***************************************************************************)
(* The world a handler runs in.  Every operation below takes a world w and *)
(* returns [w |-> the world after it, ok |-> FALSE iff it raised,          *)
(* v |-> the value returned or the name of the exception].                 *)
(*   w.fs        path -> content of the filesystem                         *)
(*   w.files     CachedFile.files, in insertion order                      *)
(*   w.pending   paths whose watch holds an unread inotify event           *)
(*   w.poll      paths of the notifiers the poll cycle has still to check  *)
(*   w.units     instance id -> Template with its ContextChain             *)
(*   w.templates, w.changed_templates   of the Definition                  *)
(*   w.force_overwrite, w.watch_changes   of the Definition                *)
(*   w.interrupt where SIGINT arrives while the handler writes a           *)
(*               destination, "" if it does not arrive                     *)
(*   w.hist      what the running handler did, in order                    *)
(***************************************************************************)
Ret(w, v) == [w |-> w, ok |-> TRUE, v |-> v]

Raise(w, exc) == [w |-> w, ok |-> FALSE, v |-> exc]

Log(w, entry) == [w EXCEPT !.hist = Append(@, entry)]

\* `r` then `Continue`: an operation that raised ends the sequence
Then(r, Continue(_)) == IF r.ok THEN Continue(r) ELSE r

\* `x = value; Body`
With(value, Body(_)) == Body(value)

\* contents of a path: a YAML document [k |-> "yaml", v |-> items, rev |-> n] (rev
\* stands for comments and layout, which parsing drops), text that is no YAML
\* document, a directory, or nothing
Missing == [k |-> "missing"]

Directory == [k |-> "dir"]

BadYaml == [k |-> "bad"]

\* a file that io.open(path, 'w') has emptied and nothing was written to
Truncated == [k |-> "truncated"]

Yaml(items, rev) == [k |-> "yaml", v |-> items, rev |-> rev]

exists(fs, path) == fs[path].k # "missing"

isfile(fs, path) == fs[path].k \notin {"missing", "dir"}

\* utils.load_yaml raises YAMLError
LoadYamlFails(string) == string.k # "yaml"

load_yaml(string) == string.v

(***************************************************************************)
(* CachedFile                                                              *)
(***************************************************************************)
HasFile(files, path) == \E j \in 1..Len(files) : files[j].path = path

FileIdx(files, path) == CHOOSE j \in 1..Len(files) : files[j].path = path

File(w, path) == w.files[FileIdx(w.files, path)]

NoCache == [k |-> "none"]

EmptyCache == [k |-> "empty"]

\* CachedFile.__init__: add_watch arms the watch only on a path that exists
NewCachedFile(fs, path, watch_changes) ==
    [path |-> path, cache |-> NoCache, on_change_event |-> <<>>,
     notifier |-> watch_changes /\ exists(fs, path)]

\* CachedFile.get_file
get_file(w, path, watch_changes) ==
    IF HasFile(w.files, path) THEN w
    ELSE [w EXCEPT !.files = Append(@, NewCachedFile(w.fs, path, watch_changes))]

\* on_change_event += handler
Subscribe(w, path, handler) ==
    [w EXCEPT !.files[FileIdx(w.files, path)].on_change_event = Append(@, handler)]

\* list.remove: the first item equal to handler
RECURSIVE RemoveFirst(_, _)
RemoveFirst(handlers, handler) ==
    IF handlers = <<>> THEN <<>>
    ELSE IF Head(handlers) = handler THEN Tail(handlers)
    ELSE <<Head(handlers)>> \o RemoveFirst(Tail(handlers), handler)

\* on_change_event -= handler
Unsubscribe(w, path, handler) ==
    [w EXCEPT !.files[FileIdx(w.files, path)].on_change_event = RemoveFirst(@, handler)]

SetCache(w, path, cache) == [w EXCEPT !.files[FileIdx(w.files, path)].cache = cache]

\* a read that goes to the filesystem every time
readUncached(w, path) ==
    IF ~isfile(w.fs, path)
    THEN Raise(Log(SetCache(w, path, EmptyCache),
                   [e |-> "read_failed", path |-> path, error |-> "IOError"]),
               "IOError")
    ELSE Ret(Log(SetCache(w, path, [k |-> "full", path |-> path, content |-> w.fs[path],
                                    hash |-> hash(w.fs[path])]),
                 [e |-> "io.open", path |-> path]),
             w.fs[path])

\* a read that takes the {} left by a failed read for an empty file
readSticky(w, path) ==
    IF File(w, path).cache.k = "empty"
    THEN Ret(Log(w, [e |-> "cached", path |-> path]), Yaml(<<>>, 0))
    ELSE IF File(w, path).cache.k = "full"
    THEN Ret(Log(w, [e |-> "cached", path |-> path]), File(w, path).cache.content)
    ELSE IF ~exists(w.fs, path)
    THEN Raise(Log(SetCache(w, path, EmptyCache),
                   [e |-> "read_failed", path |-> path, error |-> "FileNotFoundError"]),
               "FileNotFoundError")
    ELSE readUncached(w, path)

\* CachedFile.read
read(w, path) ==
    With(File(w, path).cache, LAMBDA cache :
        IF cache.k = "full" /\ cache.path = path
        THEN Ret(Log(w, [e |-> "cached", path |-> path]), cache.content)
        ELSE With(SetCache(w, path, EmptyCache), LAMBDA w1 :
             IF ~exists(w.fs, path)
             THEN Raise(Log(w1, [e |-> "read_failed", path |-> path,
                                 error |-> "FileNotFoundError"]),
                        "FileNotFoundError")
             ELSE IF ~isfile(w.fs, path)
             THEN Raise(Log(w1, [e |-> "read_failed", path |-> path, error |-> "IOError"]),
                        "IOError")
             ELSE Ret(Log(SetCache(w1, path,
                            [k |-> "full", path |-> path, content |-> w.fs[path],
                             hash |-> hash(w.fs[path])]),
                          [e |-> "io.open", path |-> path]),
                      w.fs[path])))

\* os.path.dirname of the paths that have one
dirname(path) == IF path = "S/D" THEN "S" ELSE ""

\* the watches that report the write of content to path: IN_MODIFY of the
\* watch on the file, IN_CREATE of the watch on its directory
Written(w, path) ==
    {p \in {path} : HasFile(w.files, p) /\ File(w, p).notifier}
        \cup {p \in {dirname(path)} \ {""} :
                 ~exists(w.fs, path) /\ HasFile(w.files, p) /\ File(w, p).notifier}

\* what write logs: the path, the content, the flag, what was at the path and
\* at its directory, and the error raised
WriteEntry(w, content, path, force_overwrite, error) ==
    [e |-> "write", path |-> path, content |-> content, force |-> force_overwrite,
     was |-> w.fs[path],
     dir_was |-> IF dirname(path) = "" THEN Directory ELSE w.fs[dirname(path)],
     error |-> error]

\* the points of Template.render at which SIGINT may arrive: on the way into
\* self.file.write, and in CachedFile.write between io.open(path, 'w') and
\* f.write(content)
InterruptPoints == {"file.write", "f.write"}

\* `with io.open(path, 'w', encoding='utf8') as f:` left by KeyboardInterrupt
\* before f.write(content): the directory is made, the file is open and empty
OpenedOnly(w, content, path, force_overwrite) ==
    Raise(Log(Log([w EXCEPT !.fs = [p \in DOMAIN @ |->
                                      IF p = path THEN Truncated
                                      ELSE IF p = dirname(path) /\ ~exists(w.fs, path)
                                      THEN Directory
                                      ELSE @[p]],
                            !.pending = @ \cup Written(w, path),
                            !.interrupt = ""],
                  WriteEntry(w, content, path, force_overwrite, "KeyboardInterrupt")),
              [e |-> "KeyboardInterrupt", u |-> 0, path |-> path]),
          "KeyboardInterrupt")

\* CachedFile.write from os.makedirs on; os.makedirs raises FileExistsError on
\* a file in the way
WriteFile(w, content, path, force_overwrite) ==
    IF ~exists(w.fs, path) /\ dirname(path) # "" /\ isfile(w.fs, dirname(path))
        THEN Raise(Log(w, WriteEntry(w, content, path, force_overwrite, "FileExistsError")),
                   "FileExistsError")
    ELSE IF w.interrupt = "f.write"
        THEN OpenedOnly(w, content, path, force_overwrite)
    ELSE Ret(Log([w EXCEPT !.fs = [p \in DOMAIN @ |->
                                      IF p = path THEN content
                                      ELSE IF p = dirname(path) /\ ~exists(w.fs, path)
                                      THEN Directory
                                      ELSE @[p]],
                           !.pending = @ \cup Written(w, path)],
                 WriteEntry(w, content, path, force_overwrite, "")),
             None)

\* a write that overwrites whether or not it is told to
writeForced(w, content, path, force_overwrite) ==
    IF exists(w.fs, path) /\ ~isfile(w.fs, path)
    THEN Raise(Log(w, WriteEntry(w, content, path, force_overwrite,
                                 "IOError: Destination exists and is not a file")),
               "IOError: Destination exists and is not a file")
    ELSE WriteFile(w, content, path, force_overwrite)

\* CachedFile.write
write(w, content, path, force_overwrite) ==
    IF exists(w.fs, path) /\ isfile(w.fs, path) /\ ~force_overwrite
        THEN Raise(Log(w, WriteEntry(w, content, path, force_overwrite,
                                     "IOError: Destination already exists")),
                   "IOError: Destination already exists")
    ELSE IF exists(w.fs, path) /\ ~isfile(w.fs, path)
        THEN Raise(Log(w, WriteEntry(w, content, path, force_overwrite,
                                     "IOError: Destination exists and is not a file")),
                   "IOError: Destination exists and is not a file")
    ELSE WriteFile(w, content, path, force_overwrite)

\* a cleanup that evicts nothing
KeepAll(files) == files

\* a cleanup that keeps the entries a chain element or a Template is
\* subscribed to, and no other
RECURSIVE KeepUsedByUnits(_)
KeepUsedByUnits(files) ==
    IF files = <<>> THEN <<>>
    ELSE IF \A n \in 1..Len(Head(files).on_change_event) :
                Head(files).on_change_event[n].u = 0
         THEN KeepUsedByUnits(Tail(files))
    ELSE <<Head(files)>> \o KeepUsedByUnits(Tail(files))

\* CachedFile.cleanup_unused_files; a stopped notifier reports no event any more
RECURSIVE KeepUsed(_)
KeepUsed(files) ==
    IF files = <<>> THEN <<>>
    ELSE IF Len(Head(files).on_change_event) = 0 THEN KeepUsed(Tail(files))
    ELSE <<Head(files)>> \o KeepUsed(Tail(files))

\* CachedFile.remove of the entries that are in files and not in kept: the
\* paths whose notifier it stops
Stopped(w, kept) ==
    {w.files[j].path : j \in {i \in 1..Len(w.files) :
        w.watch_changes /\ \A m \in 1..Len(kept) : kept[m].path # w.files[i].path}}

\* a cleanup whose `del` comes without remove(): the watch of an evicted entry
\* stays armed and its events stay to be read
CleanupWithoutRemove(w) ==
    LET kept == KeepUsed(w.files)
        paths == {kept[j].path : j \in 1..Len(kept)}
    IN  Log([w EXCEPT !.files = kept, !.poll = SelectSeq(@, LAMBDA p : p \in paths)],
            [e |-> "cleanup", before |-> w.files, after |-> kept, stopped |-> {},
             events_before |-> w.pending, events_after |-> w.pending])

cleanup_unused_files(w) ==
    LET kept == KeepUsed(w.files)
        paths == {kept[j].path : j \in 1..Len(kept)}
    IN  Log([w EXCEPT !.files = kept, !.pending = @ \cap paths,
                      !.poll = SelectSeq(@, LAMBDA p : p \in paths)],
            [e |-> "cleanup", before |-> w.files, after |-> kept,
             stopped |-> Stopped(w, kept),
             events_before |-> w.pending, events_after |-> w.pending \cap paths])

(***************************************************************************)
(* ContextChainElement, ContextChain                                       *)
(***************************************************************************)
FileSource(path) == [k |-> "file", path |-> path]

DictSource(data, origin_path) == [k |-> "dict", path |-> origin_path, data |-> data]

\* ContextChainElement.__init__ (prev is the element before it in the chain)
NewElement(source) == [source |-> source, cache |-> None, cache_hash |-> None]

Elem(w, u, i) == w.units[u].chain[i]

ElemHandler(u, i) == [k |-> "ContextChainElement._on_change", u |-> u, i |-> i]

RenderHandler(u) == [k |-> "Template.render", u |-> u, i |-> 0]

DefHandler == [k |-> "Definition._on_change", u |-> 0, i |-> 0]

\* _on_change of the Definition of a second definition file
OtherDefHandler == [k |-> "Definition._on_change", u |-> 0, i |-> 1]

OtherDefinitionPath == "M2"

\* self.cache = ...; self.cache_hash = hash(self.cache)
StoreContext(w, u, i, context) ==
    Log([w EXCEPT !.units[u].chain[i].cache = [k |-> "dict", v |-> context],
                  !.units[u].chain[i].cache_hash = hash(context)],
        [e |-> "_create_context", u |-> u, i |-> i])

RECURSIVE get_context(_, _, _)
RECURSIVE _create_context(_, _, _)
\* a get_context that keeps no memo: every call computes the context
get_contextUnmemoized(w, u, i) == _create_context(w, u, i)

\* ContextChainElement.get_context
get_context(w, u, i) ==
    IF Elem(w, u, i).cache.k # "none" THEN Ret(w, Elem(w, u, i).cache.v)
    ELSE _create_context(w, u, i)

\* `raise Exception("Cannot load variables from '{0}': {1}".format(path, str(e)))`
\* with the path of the source of the element
CannotLoadVariables(w, u, i) ==
    Raise(Log(w, [e |-> "Exception", u |-> u, i |-> i, path |-> Elem(w, u, i).source.path]),
          "Cannot load variables")

\* a try block that empties the memoized context before it raises
CreateFromClearing(w, u, i, the_dict, parent_context) ==
    With(render_dict_and_add_to_context(the_dict, parent_context), LAMBDA c :
        IF ~c.ok
        THEN CannotLoadVariables([w EXCEPT !.units[u].chain[i].cache =
                                               [k |-> "dict", v |-> EmptyDict]], u, i)
        ELSE Ret(StoreContext(w, u, i, c.v), c.v))

\* render_dict_and_add_to_context in the try block of _create_context
CreateFrom(w, u, i, the_dict, parent_context) ==
    With(render_dict_and_add_to_context(the_dict, parent_context), LAMBDA c :
        IF ~c.ok THEN CannotLoadVariables(w, u, i)
        ELSE Ret(StoreContext(w, u, i, c.v), c.v))

\* ContextChainElement._create_context
_create_context(w, u, i) ==
    Then(IF i > 1 THEN get_context(w, u, i - 1) ELSE Ret(w, EmptyDict), LAMBDA parent :
        IF Elem(w, u, i).source.k = "file"
        THEN Then(read(parent.w, Elem(w, u, i).source.path), LAMBDA file_content :
                 IF LoadYamlFails(file_content.v)
                 THEN CannotLoadVariables(file_content.w, u, i)
                 ELSE CreateFrom(file_content.w, u, i, load_yaml(file_content.v), parent.v))
        ELSE CreateFrom(parent.w, u, i, Elem(w, u, i).source.data, parent.v))

\* ContextChain.get_context
ChainGetContext(w, u) ==
    IF w.units[u].removed THEN Raise(w, "TypeError")
    ELSE IF Len(w.units[u].chain) = 0 THEN Raise(w, "IndexError")
    ELSE get_context(w, u, Len(w.units[u].chain))

(***************************************************************************)
(* Template                                                                *)
(***************************************************************************)
\* what load_yaml gives for a document that Jinja has rendered as text: every
\* quoted "{{ x }}" has become the str that x prints as
RECURSIVE RenderedDocument(_, _)
RenderedDocument(value, context) ==
    CASE value.k = "tpl" -> S(render_string(value, context))
      [] value.k = "list" ->
            [k |-> "list",
             v |-> [j \in 1..Len(value.v) |-> RenderedDocument(value.v[j], context)]]
      [] value.k = "dict" ->
            [k |-> "dict",
             v |-> [j \in 1..Len(value.v) |->
                      <<value.v[j][1], RenderedDocument(value.v[j][2], context)>>]]
      [] OTHER -> value

\* the items of a mapping whose value is not Omit, in order
RECURSIVE DropOmitItems(_)
DropOmitItems(items) ==
    IF items = <<>> THEN <<>>
    ELSE IF Head(items)[2] = Omit THEN DropOmitItems(Tail(items))
    ELSE <<Head(items)>> \o DropOmitItems(Tail(items))

\* JinjaRenderer.remove_omit_from_dict
RECURSIVE remove_omit_from_dict(_)
remove_omit_from_dict(value) ==
    CASE value.k = "none" -> None
      [] value.k = "str" -> IF HasOmit(value.v) THEN Omit ELSE value
      [] value.k = "list" ->
            [k |-> "list",
             v |-> DropOmit([j \in 1..Len(value.v) |-> remove_omit_from_dict(value.v[j])])]
      [] value.k = "dict" ->
            [k |-> "dict",
             v |-> DropOmitItems([j \in 1..Len(value.v) |->
                      <<value.v[j][1], remove_omit_from_dict(value.v[j][2])>>])]
      [] OTHER -> value

\* dump_yaml(remove_omit_from_dict(load_yaml(render_string(file_content, context)))):
\* the text written to the destination
ProcessedContent(file_content, context) ==
    Yaml(remove_omit_from_dict(
             RenderedDocument([k |-> "dict", v |-> load_yaml(file_content)],
                              WithOmit(context))).v,
         file_content.rev)

\* render_string(file_content, context) raises
TemplateRenderFails(file_content, context) ==
    /\ file_content.k = "yaml"
    /\ RenderRecursivelyFails([k |-> "dict", v |-> file_content.v], context)

\* Template._create_path; render_string puts 'omit' into the dict it is given,
\* which is the memoized context of the tail of the chain
_create_path(w, u, path) ==
    Then(ChainGetContext(w, u), LAMBDA c :
        With([c.w EXCEPT !.units[u].chain[Len(w.units[u].chain)].cache.v = WithOmit(@)],
             LAMBDA w1 :
                IF RenderStringFails(path, c.v) THEN Raise(w1, "UndefinedError")
                ELSE Ret(w1, render_string(path, c.v))))

\* Template.file: `self._file -= self.render` raises TypeError, CachedFile has no
\* __isub__, before anything is unsubscribed or bound
TemplateFile(w, u) ==
    Then(_create_path(w, u, w.units[u].src), LAMBDA path :
        IF w.units[u].file = path.v THEN path
        ELSE Raise(path.w, "TypeError"))

\* the try block of Template.render from `file_content = self.file.read()` on;
\* Python raises KeyboardInterrupt in the code that runs when SIGINT arrives,
\* here on the way into self.file.write
RenderContent(w, u, file_content) ==
    Then(ChainGetContext(w, u), LAMBDA context :
        IF TemplateRenderFails(file_content, context.v) THEN Raise(context.w, "UndefinedError")
        ELSE IF LoadYamlFails(file_content) THEN Raise(context.w, "YAMLError")
        ELSE Then(_create_path(context.w, u, w.units[u].dest), LAMBDA dest_path :
             Then(TemplateFile(dest_path.w, u), LAMBDA file :
                 IF file.w.interrupt = "file.write"
                 THEN Raise(Log([file.w EXCEPT !.interrupt = ""],
                                [e |-> "KeyboardInterrupt", u |-> u, path |-> dest_path.v]),
                            "KeyboardInterrupt")
                 ELSE write(file.w, ProcessedContent(file_content, context.v), dest_path.v,
                            w.units[u].force_overwrite))))

\* the try block of Template.render
RenderBody(w, u) ==
    Then(_create_path(w, u, w.units[u].src), LAMBDA src_rel :
    Then(_create_path(src_rel.w, u, w.units[u].dest), LAMBDA dest_rel :
    Then(TemplateFile(dest_rel.w, u), LAMBDA file :
    Then(read(file.w, file.v), LAMBDA file_content :
        RenderContent(file_content.w, u, file_content.v)))))

\* a render without the `except Exception` clause
renderUncaught(w, u) ==
    With(RenderBody(w, u), LAMBDA r :
        IF r.ok
        THEN Ret(Log(r.w, [e |-> "render", u |-> u, result |-> TRUE, error |-> ""]), TRUE)
        ELSE Raise(Log(r.w, [e |-> "render", u |-> u, result |-> FALSE, error |-> r.v]), r.v))

\* a render that reports a refused write of its destination as a success
renderUnrefused(w, u) ==
    With(RenderBody(w, u), LAMBDA r :
        IF ~r.ok /\ r.v = "KeyboardInterrupt"
        THEN Raise(Log(r.w, [e |-> "render", u |-> u, result |-> FALSE, error |-> r.v]), r.v)
        ELSE IF ~r.ok /\ r.v = "IOError: Destination already exists"
        THEN Ret(Log(r.w, [e |-> "render", u |-> u, result |-> TRUE, error |-> ""]), TRUE)
        ELSE Ret(Log(r.w, [e |-> "render", u |-> u, result |-> r.ok,
                           error |-> IF r.ok THEN "" ELSE r.v]),
                 r.ok))

\* Template.render: `except Exception` turns every failure into the result
\* False; KeyboardInterrupt is no Exception and passes through
render(w, u) ==
    With(RenderBody(w, u), LAMBDA r :
        IF ~r.ok /\ r.v = "KeyboardInterrupt"
        THEN Raise(Log(r.w, [e |-> "render", u |-> u, result |-> FALSE, error |-> r.v]), r.v)
        ELSE Ret(Log(r.w, [e |-> "render", u |-> u, result |-> r.ok,
                           error |-> IF r.ok THEN "" ELSE r.v]),
                 r.ok))

\* ContextChain.on_change_event(): the handlers subscribed to the chain
ChainEvent(w, u) == IF w.units[u].subscribed THEN render(w, u) ELSE Ret(w, None)

\* an _on_change that forwards whether or not the fingerprint changed
ForwardAlways(w, u, i, old_hash, new_hash) ==
    ChainEvent(Log(w, [e |-> "element", u |-> u, i |-> i, ok |-> TRUE,
                       old |-> old_hash, new |-> new_hash, forwarded |-> TRUE]),
               u)

\* ContextChainElement._on_change after _create_context has returned
Forward(w, u, i, old_hash, new_hash) ==
    With(Log(w, [e |-> "element", u |-> u, i |-> i, ok |-> TRUE,
                 old |-> old_hash, new |-> new_hash, forwarded |-> new_hash # old_hash]),
         LAMBDA w1 : IF new_hash # old_hash THEN ChainEvent(w1, u) ELSE Ret(w1, None))

\* ContextChainElement._on_change
ElementOnChange(w, u, i) ==
    With(_create_context(w, u, i), LAMBDA c :
        IF ~c.ok
        THEN Raise(Log(c.w, [e |-> "element", u |-> u, i |-> i, ok |-> FALSE,
                             old |-> Elem(w, u, i).cache_hash,
                             new |-> Elem(w, u, i).cache_hash, forwarded |-> FALSE]),
                   c.v)
        ELSE Forward(c.w, u, i, Elem(w, u, i).cache_hash, Elem(c.w, u, i).cache_hash))

(***************************************************************************)
(* ContextChain.add_files / add_context, Template.__init__ / remove        *)
(***************************************************************************)
\* a Template under construction: ContextChain() and the fields set later
NewUnit(src, dest, force_overwrite) ==
    [src |-> src, dest |-> dest, force_overwrite |-> force_overwrite,
     chain |-> <<>>, subscribed |-> FALSE, file |-> "", removed |-> FALSE]

\* the id of a new instance: the least one not in use
NewId(w) ==
    CHOOSE u \in 1..(Cardinality(DOMAIN w.units) + 1) :
        /\ u \notin DOMAIN w.units
        /\ \A o \in 1..(u - 1) : o \in DOMAIN w.units

\* ContextChainElement(source=CachedFile.get_file(path, ...), prev=tail) and its
\* append to the chain
AddFileElement(w, u, path) ==
    With([get_file(w, path, w.watch_changes)
             EXCEPT !.units[u].chain = Append(@, NewElement(FileSource(path)))],
         LAMBDA w1 : Subscribe(w1, path, ElemHandler(u, Len(w1.units[u].chain))))

\* ContextChain.add_files from the j-th path on
RECURSIVE add_files(_, _, _, _)
add_files(w, u, files, j) ==
    IF j > Len(files) THEN w
    ELSE add_files(AddFileElement(w, u, files[j].v), u, files, j + 1)

\* ContextChain.add_context
add_context(w, u, context, origin_path) ==
    IF Len(context) > 0
    THEN [w EXCEPT !.units[u].chain = Append(@, NewElement(DictSource(context, origin_path)))]
    ELSE w

\* Template.__init__
TemplateInit(w, u) ==
    Then(_create_path(w, u, w.units[u].src), LAMBDA path :
        Ret([Subscribe(get_file(path.w, path.v, w.watch_changes), path.v,
                       RenderHandler(u))
                EXCEPT !.units[u].file = path.v, !.units[u].subscribed = TRUE],
            u))

\* a ContextChain.remove that only forgets the elements
ChainForget(w, u, i) == [w EXCEPT !.units[u].removed = TRUE]

\* ContextChainElement.remove for the elements from the i-th on
RECURSIVE ChainRemove(_, _, _)
ChainRemove(w, u, i) ==
    IF i > Len(w.units[u].chain) THEN [w EXCEPT !.units[u].removed = TRUE]
    ELSE LET source == Elem(w, u, i).source
         IN  ChainRemove(IF source.k = "file"
                         THEN Unsubscribe(w, source.path, ElemHandler(u, i)) ELSE w,
                         u, i + 1)

\* the files in whose on_change_event a handler of instance u stands
SubscribedTo(w, u) ==
    {w.files[j].path : j \in {k \in 1..Len(w.files) :
        \E n \in 1..Len(w.files[k].on_change_event) : w.files[k].on_change_event[n].u = u}}

\* a remove that leaves Template.render subscribed to the template file
TemplateRemoveChainOnly(w, u) ==
    Log(ChainRemove(w, u, 1), [e |-> "remove", u |-> u, watched |-> SubscribedTo(w, u)])

\* Template.remove
TemplateRemove(w, u) ==
    Log(Unsubscribe(ChainRemove(w, u, 1), w.units[u].file, RenderHandler(u)),
        [e |-> "remove", u |-> u, watched |-> SubscribedTo(w, u)])

(***************************************************************************)
(* Definition                                                              *)
(***************************************************************************)
\* key in dict, dict[key] for a dict given by its items
Has(items, key) == \E j \in 1..Len(items) : items[j][1] = key

Get(items, key) == (items[CHOOSE j \in 1..Len(items) : items[j][1] = key])[2]

\* Definition._parse_variable_options raises ValueError
ParseVariableOptionsFails(options) ==
    \/ Has(options, "vars") /\ Get(options, "vars").k # "dict"
    \/ Has(options, "include_vars") /\ Get(options, "include_vars").k \notin {"list", "str"}

\* a _parse_variable_options that takes no string for include_vars
ParseOptionsOfLists(options) ==
    [vars |-> IF Has(options, "vars") THEN Get(options, "vars").v ELSE <<>>,
     include_vars |->
        IF ~Has(options, "include_vars") THEN <<>>
        ELSE IF Get(options, "include_vars").k = "list" THEN Get(options, "include_vars").v
        ELSE <<>>]

\* Definition._parse_variable_options
_parse_variable_options(options) ==
    [vars |-> IF Has(options, "vars") THEN Get(options, "vars").v ELSE <<>>,
     include_vars |->
        IF ~Has(options, "include_vars") THEN <<>>
        ELSE IF Get(options, "include_vars").k = "list" THEN Get(options, "include_vars").v
        ELSE <<Get(options, "include_vars")>>]

\* the checks of 'src' and 'dest' raise ValueError
SrcDestFails(t) ==
    \/ ~Has(t, "src") \/ ~Has(t, "dest")
    \/ Get(t, "src").k \notin {"str", "tpl"}
    \/ Get(t, "dest").k \notin {"str", "tpl"}

\* thash: the digest chained over the six options
TemplateHash(global_options, template_options, src, dest) ==
    hash(<<global_options.include_vars, AsMap(global_options.vars),
           template_options.include_vars, AsMap(template_options.vars), src, dest>>)

\* a chain with the layers of the unit below the global ones
BuildTemplateUnitFirst(w, u, global_options, template_options, src, dest, file_path) ==
    TemplateInit(
        add_context(
            add_files(
                add_context(
                    add_files([w EXCEPT !.units =
                                   (u :> NewUnit(src, dest, w.force_overwrite)) @@ @],
                              u, template_options.include_vars, 1),
                    u, template_options.vars, file_path),
                u, global_options.include_vars, 1),
            u, global_options.vars, file_path),
        u)

\* tcc = ContextChain(...) with its four layers, then Template(...)
BuildTemplate(w, u, global_options, template_options, src, dest, file_path) ==
    TemplateInit(
        add_context(
            add_files(
                add_context(
                    add_files([w EXCEPT !.units =
                                   (u :> NewUnit(src, dest, w.force_overwrite)) @@ @],
                              u, global_options.include_vars, 1),
                    u, global_options.vars, file_path),
                u, template_options.include_vars, 1),
            u, template_options.vars, file_path),
        u)

RECURSIVE ParseTemplates(_, _, _, _, _)
\* a pass that builds a new Template whether or not thash is known
ParseTemplateAnew(w, file_path, global_options, ts, templates, template_options, thash) ==
    Then(BuildTemplate(w, NewId(w), global_options, template_options,
                       Get(Head(ts).v, "src"), Get(Head(ts).v, "dest"), file_path),
         LAMBDA t :
            ParseTemplates([t.w EXCEPT !.changed_templates = Append(@, thash)],
                           file_path, global_options, Tail(ts),
                           (thash :> t.v) @@ templates))

\* a pass that puts a new Template into Definition.templates at once
ParseTemplateInstalling(w, file_path, global_options, ts, templates, template_options, thash) ==
    IF thash \in DOMAIN w.templates
    THEN ParseTemplates(w, file_path, global_options, Tail(ts),
                        (thash :> w.templates[thash]) @@ templates)
    ELSE Then(BuildTemplate(w, NewId(w), global_options, template_options,
                            Get(Head(ts).v, "src"), Get(Head(ts).v, "dest"), file_path),
              LAMBDA t :
                 ParseTemplates([t.w EXCEPT !.changed_templates = Append(@, thash),
                                            !.templates = (thash :> t.v) @@ @],
                                file_path, global_options, Tail(ts),
                                (thash :> t.v) @@ templates))

\* one pass of `for t in file_content['templates']` once the options are parsed
ParseTemplate(w, file_path, global_options, ts, templates, template_options, thash) ==
    IF thash \in DOMAIN w.templates
    THEN ParseTemplates(w, file_path, global_options, Tail(ts),
                        (thash :> w.templates[thash]) @@ templates)
    ELSE Then(BuildTemplate(w, NewId(w), global_options, template_options,
                            Get(Head(ts).v, "src"), Get(Head(ts).v, "dest"), file_path),
              LAMBDA t :
                 ParseTemplates([t.w EXCEPT !.changed_templates = Append(@, thash)],
                                file_path, global_options, Tail(ts),
                                (thash :> t.v) @@ templates))

\* `for t in file_content['templates']` over the items ts; templates is the
\* local dict of _parse
ParseTemplates(w, file_path, global_options, ts, templates) ==
    IF ts = <<>> THEN Ret(w, templates)
    ELSE IF ParseVariableOptionsFails(Head(ts).v) \/ SrcDestFails(Head(ts).v)
    THEN Raise(w, "ValueError")
    ELSE ParseTemplate(w, file_path, global_options, ts, templates,
                       _parse_variable_options(Head(ts).v),
                       TemplateHash(global_options, _parse_variable_options(Head(ts).v),
                                    Get(Head(ts).v, "src"), Get(Head(ts).v, "dest")))

\* `for thash, t in self.templates.items(): if thash not in templates: t.remove()`
RECURSIVE RemoveUndefined(_, _, _)
RemoveUndefined(w, old, templates) ==
    IF old = {} THEN w
    ELSE With(CHOOSE h \in old : TRUE, LAMBDA thash :
            RemoveUndefined(IF thash \notin DOMAIN templates
                            THEN TemplateRemove(w, w.templates[thash]) ELSE w,
                            old \ {thash}, templates))

\* Definition._parse once the definition file is loaded
ParseDocument(w, doc) ==
    IF ~Has(doc, "templates") \/ Get(doc, "templates").k # "list" THEN Raise(w, "ValueError")
    ELSE IF ParseVariableOptionsFails(doc) THEN Raise(w, "ValueError")
    ELSE Then(ParseTemplates(w, DefinitionPath, _parse_variable_options(doc),
                             Get(doc, "templates").v, <<>>),
              LAMBDA parsed :
                 Ret([cleanup_unused_files(
                          RemoveUndefined(parsed.w, DOMAIN w.templates, parsed.v))
                         EXCEPT !.templates = parsed.v],
                     None))

\* Definition._parse
_parse(w) ==
    Then(read([w EXCEPT !.changed_templates = <<>>], DefinitionPath), LAMBDA file_content :
        IF LoadYamlFails(file_content.v) THEN Raise(file_content.w, "YAMLError")
        ELSE ParseDocument(file_content.w, load_yaml(file_content.v)))

\* a pass over the changed templates that ends at the first render that fails
RECURSIVE RenderUntilFailure(_, _, _)
RenderUntilFailure(w, j, all_renders_successfull) ==
    IF j > Len(w.changed_templates) THEN Ret(w, all_renders_successfull)
    ELSE Then(render(w, w.templates[w.changed_templates[j]]), LAMBDA r :
            IF r.v THEN RenderUntilFailure(r.w, j + 1, all_renders_successfull)
            ELSE Ret(r.w, FALSE))

\* Definition._render_templates from the j-th changed template on
RECURSIVE _render_templates(_, _, _)
_render_templates(w, j, all_renders_successfull) ==
    IF j > Len(w.changed_templates) THEN Ret(w, all_renders_successfull)
    ELSE Then(render(w, w.templates[w.changed_templates[j]]), LAMBDA r :
            _render_templates(r.w, j + 1, all_renders_successfull /\ r.v))

\* Definition.process
process(w) ==
    With(_parse(w), LAMBDA parsed :
        IF ~parsed.ok
        THEN Ret(Log(parsed.w, [e |-> "process", path |-> DefinitionPath, result |-> FALSE,
                                error |-> parsed.v]),
                 FALSE)
        ELSE Then(_render_templates(parsed.w, 1, TRUE), LAMBDA r :
                Ret(Log(r.w, [e |-> "process", path |-> DefinitionPath, result |-> r.v,
                              error |-> ""]),
                    r.v)))

\* Definition.process of a second definition file, one that defines no
\* template: its templates and changed_templates stay empty
ProcessOther(w, path) ==
    With(read(w, path), LAMBDA file_content :
        IF ~file_content.ok
        THEN Ret(Log(file_content.w, [e |-> "process", path |-> path, result |-> FALSE,
                                      error |-> file_content.v]),
                 FALSE)
        ELSE IF LoadYamlFails(file_content.v)
        THEN Ret(Log(file_content.w, [e |-> "process", path |-> path, result |-> FALSE,
                                      error |-> "YAMLError"]),
                 FALSE)
        ELSE IF \/ ~Has(load_yaml(file_content.v), "templates")
                \/ Get(load_yaml(file_content.v), "templates").k # "list"
                \/ ParseVariableOptionsFails(load_yaml(file_content.v))
        THEN Ret(Log(file_content.w, [e |-> "process", path |-> path, result |-> FALSE,
                                      error |-> "ValueError"]),
                 FALSE)
        ELSE Ret(Log(cleanup_unused_files(file_content.w),
                     [e |-> "process", path |-> path, result |-> TRUE, error |-> ""]),
                 TRUE))

\* d.process() of the Definition of path
ProcessOf(w, path) == IF path = DefinitionPath THEN process(w) ELSE ProcessOther(w, path)

\* cli without --auto-render: `for df in definitions: if not df.process():
\* some_renders_failed = True`, stopped at the first definition that fails
RECURSIVE ProcessUntilFailure(_, _, _, _)
ProcessUntilFailure(w, definitions, j, some_renders_failed) ==
    IF j > Len(definitions) \/ some_renders_failed THEN Ret(w, some_renders_failed)
    ELSE Then(ProcessOf(w, definitions[j]), LAMBDA r :
            ProcessUntilFailure(r.w, definitions, j + 1, some_renders_failed \/ ~r.v))

\* cli without --auto-render: `for df in definitions: if not df.process():
\* some_renders_failed = True` from the j-th definition on
RECURSIVE ProcessEach(_, _, _, _)
ProcessEach(w, definitions, j, some_renders_failed) ==
    IF j > Len(definitions) THEN Ret(w, some_renders_failed)
    ELSE Then(ProcessOf(w, definitions[j]), LAMBDA r :
            ProcessEach(r.w, definitions, j + 1, some_renders_failed \/ ~r.v))

\* `for d in self.definitions: d.process()` from the j-th definition on
RECURSIVE ProcessAll(_, _, _)
ProcessAll(w, definitions, j) ==
    IF j > Len(definitions) THEN w
    ELSE ProcessAll(ProcessOf(w, definitions[j]).w, definitions, j + 1)

(***************************************************************************)
(* Event.__call__, CachedFile._on_change                                   *)
(***************************************************************************)
CallHandler(w, handler) ==
    CASE handler.k = "ContextChainElement._on_change" ->
            ElementOnChange(w, handler.u, handler.i)
      [] handler.k = "Template.render" -> render(w, handler.u)
      [] handler.k = "Definition._on_change" ->
            ProcessOf(w, IF handler = DefHandler THEN DefinitionPath ELSE OtherDefinitionPath)

\* Event.__call__ from the j-th handler on: an exception leaves the loop
RECURSIVE EventCall(_, _, _)
EventCall(w, handlers, j) ==
    IF j > Len(handlers) THEN Ret(w, None)
    ELSE With(CallHandler(Log(w, [e |-> "call", handler |-> handlers[j]]), handlers[j]),
              LAMBDA r :
                 IF ~r.ok THEN Raise(Log(r.w, [e |-> "raised", handler |-> handlers[j]]), r.v)
                 ELSE EventCall(r.w, handlers, j + 1))

\* an _on_change that puts the new content beside the old fingerprint
RereadStale(w, path, old_hash) ==
    IF isfile(w.fs, path)
    THEN Ret(SetCache(w, path, [File(w, path).cache EXCEPT !.content = w.fs[path]]), None)
    ELSE Raise(w, "FileNotFoundError")

\* an _on_change that calls the subscribers whether or not the fingerprint changed
RereadAndNotify(w, path, old_hash) ==
    Then(read(SetCache(w, path, NoCache), path), LAMBDA r :
        EventCall(Log(r.w, [e |-> "changed", path |-> path, old |-> old_hash,
                            new |-> File(r.w, path).cache.hash]),
                  File(r.w, path).on_change_event, 1))

\* CachedFile._on_change after `old_hash = self.cache['hash']`
Reread(w, path, old_hash) ==
    Then(read(SetCache(w, path, NoCache), path), LAMBDA r :
        With(Log(r.w, [e |-> "changed", path |-> path, old |-> old_hash,
                       new |-> File(r.w, path).cache.hash]),
             LAMBDA w1 :
                IF old_hash # File(r.w, path).cache.hash
                THEN EventCall(w1, File(w1, path).on_change_event, 1)
                ELSE Ret(w1, None)))

\* CachedFile._on_change
CachedFileOnChange(w, path) ==
    IF File(w, path).cache.k = "none" THEN Raise(w, "TypeError")
    ELSE IF File(w, path).cache.k = "empty" THEN Raise(w, "KeyError")
    ELSE Reread(w, path, File(w, path).cache.hash)

(***************************************************************************)
(* Files on disk                                                           *)
(***************************************************************************)
L(items) == [k |-> "list", v |-> items]

D(items) == [k |-> "dict", v |-> items]

\* one item of 'templates'
TemplateEntry(src, dest, include_vars, vars) ==
    D(<< <<"src", src>>, <<"dest", dest>> >>
        \o (IF include_vars = <<>> THEN <<>> ELSE << <<"include_vars", L(include_vars)>> >>)
        \o (IF vars = <<>> THEN <<>> ELSE << <<"vars", D(vars)>> >>))

\* a definition file
Manifest(include_vars, vars, entries, rev) ==
    Yaml(<< <<"templates", L(entries)>> >>
            \o (IF include_vars = <<>> THEN <<>> ELSE << <<"include_vars", L(include_vars)>> >>)
            \o (IF vars = <<>> THEN <<>> ELSE << <<"vars", D(vars)>> >>),
         rev)

\* "S" is a directory where a scenario has it, "S/D" a path inside it, "F~" the
\* name a file is moved to while it is away
Paths == {"M", "M2", "F", "G", "T1", "T2", "D1", "D2", "S", "S/D", "F~"}

NoFiles == [p \in Paths |-> Missing]

\* file contents: a variable file or a template with one or two items
Doc1(key, value) == Yaml(<< <<key, value>> >>, 0)

Doc2(key1, value1, key2, value2) == Yaml(<< <<key1, value1>>, <<key2, value2>> >>, 0)

\* the same document with another comment in it
Commented(doc) == [doc EXCEPT !.rev = 1]

(***************************************************************************)
(* Scenarios: the files present at start and the rewrites the environment  *)
(* may make of each file.                                                  *)
(***************************************************************************)
NoEdits == [p \in Paths |-> {}]

\* chain: one unit whose chain is file F (global), file G, inline vars
ScenarioChain ==
    [force_overwrite |-> TRUE,
     fs |-> [NoFiles EXCEPT
        !["M"] = Manifest(<<S("F")>>, <<>>,
                    <<TemplateEntry(S("T1"), S("D1"), <<S("G")>>, << <<"d", Tpl("b")>> >>)>>, 0),
        !["F"] = Doc1("a", S("p")),
        !["G"] = Doc1("b", Tpl("a")),
        !["T1"] = Doc2("x", Tpl("a"), "y", Tpl("d"))],
     edits |-> [NoEdits EXCEPT
        !["F"] = {Doc1("a", S("p")), Doc1("a", S("q")), Commented(Doc1("a", S("p"))), BadYaml},
        !["G"] = {Doc1("b", Tpl("a")), Doc1("b", S("p"))},
        !["T1"] = {Doc2("x", Tpl("a"), "y", Tpl("d")), Doc2("x", Tpl("a"), "z", Tpl("nope"))}]]

\* shared: two units share the global file F, the second one includes it again
ScenarioShared ==
    [force_overwrite |-> TRUE,
     fs |-> [NoFiles EXCEPT
        !["M"] = Manifest(<<S("F")>>, <<>>,
                    <<TemplateEntry(S("T1"), S("D1"), <<>>, <<>>),
                      TemplateEntry(S("T2"), S("D2"), <<S("F")>>, <<>>)>>, 0),
        !["F"] = Doc1("a", S("p")),
        !["T1"] = Doc1("x", Tpl("a")),
        !["T2"] = Doc2("y", Tpl("a"), "o", Tpl("omit"))],
     edits |-> [NoEdits EXCEPT
        !["F"] = {Doc1("a", S("p")), Doc1("a", S("q"))},
        !["T1"] = {Doc1("x", Tpl("a")), BadYaml}]]

\* isolation: F is the whole chain of the first unit and follows G in the second
ScenarioIsolation ==
    [force_overwrite |-> TRUE,
     fs |-> [NoFiles EXCEPT
        !["M"] = Manifest(<<>>, <<>>,
                    <<TemplateEntry(S("T1"), S("D1"), <<S("F")>>, <<>>),
                      TemplateEntry(S("T1"), S("D2"), <<S("G"), S("F")>>, <<>>)>>, 0),
        !["F"] = Doc1("a", S("p")),
        !["G"] = Doc1("b", S("q")),
        !["T1"] = Doc1("x", Tpl("a"))],
     edits |-> [NoEdits EXCEPT
        !["F"] = {Doc1("a", S("p")), Doc1("a", Tpl("b"))}]]

\* rebind: the source path of the unit is a variable of F
ScenarioRebind ==
    [force_overwrite |-> TRUE,
     fs |-> [NoFiles EXCEPT
        !["M"] = Manifest(<<>>, <<>>,
                    <<TemplateEntry(Tpl("t"), S("D1"), <<S("F")>>, <<>>)>>, 0),
        !["F"] = Doc2("t", S("T1"), "a", I(1)),
        !["T1"] = Doc1("x", Tpl("a")),
        !["T2"] = Doc1("y", Tpl("a"))],
     edits |-> [NoEdits EXCEPT
        !["F"] = {Doc2("t", S("T1"), "a", I(1)), Doc2("t", S("T2"), "a", I(1)),
                  Doc2("t", S("T1"), "a", I(2))}]]

\* reparse: the definition file is rewritten
EntryA == TemplateEntry(S("T1"), S("D1"), <<S("F")>>, <<>>)
EntryB == TemplateEntry(S("T2"), S("D2"), <<S("F"), S("G")>>, <<>>)
EntryC == TemplateEntry(S("T1"), S("D1"), <<S("F")>>, << <<"a", S("r")>> >>)

ScenarioReparse ==
    [force_overwrite |-> TRUE,
     fs |-> [NoFiles EXCEPT
        !["M"] = Manifest(<<>>, <<>>, <<EntryA, EntryB>>, 0),
        !["F"] = Doc1("a", S("p")),
        !["G"] = Doc1("b", S("q")),
        !["T1"] = Doc1("x", Tpl("a")),
        !["T2"] = Doc2("x", Tpl("a"), "y", Tpl("b"))],
     edits |-> [NoEdits EXCEPT
        !["M"] = {Manifest(<<>>, <<>>, <<EntryA, EntryB>>, 0),
                  Commented(Manifest(<<>>, <<>>, <<EntryA, EntryB>>, 0)),
                  Manifest(<<>>, <<>>, <<EntryA>>, 0),
                  Manifest(<<>>, <<>>, <<EntryB>>, 0),
                  Manifest(<<>>, <<>>, <<EntryC, EntryB>>, 0)},
        !["F"] = {Doc1("a", S("p")), Doc1("a", S("q"))}]]

\* noforce: cli.py without --force, one unit that writes a file and one whose
\* destination is a directory
ScenarioNoForce ==
    [force_overwrite |-> FALSE,
     fs |-> [NoFiles EXCEPT
        !["M"] = Manifest(<<>>, <<>>,
                    <<TemplateEntry(S("T1"), S("D1"), <<S("F")>>, <<>>),
                      TemplateEntry(S("T2"), S("D2"), <<S("F")>>, <<>>)>>, 0),
        !["F"] = Doc1("a", S("p")),
        !["D2"] = Directory,
        !["T1"] = Doc1("x", Tpl("a")),
        !["T2"] = Doc1("y", Tpl("a"))],
     edits |-> [NoEdits EXCEPT
        !["F"] = {Doc1("a", S("p")), Doc1("a", S("q"))}]]

\* badparse: the definition file is rewritten with documents that do not parse
EntryN == TemplateEntry(S("T2"), S("D2"), <<S("F")>>, <<>>)
EntryNoDest == D(<< <<"src", S("T1")>> >>)
EntryNoVarsFile == TemplateEntry(S("T1"), S("D1"), <<S("G")>>, <<>>)

ScenarioBadParse ==
    [force_overwrite |-> TRUE,
     fs |-> [NoFiles EXCEPT
        !["M"] = Manifest(<<>>, <<>>, <<EntryA>>, 0),
        !["F"] = Doc1("a", S("p")),
        !["T1"] = Doc1("x", Tpl("a")),
        !["T2"] = Doc1("y", Tpl("a"))],
     edits |-> [NoEdits EXCEPT
        !["M"] = {Manifest(<<>>, <<>>, <<EntryA>>, 0),
                  Manifest(<<>>, <<>>, <<EntryA, EntryN>>, 0),
                  BadYaml,
                  Manifest(<<>>, <<>>, <<EntryN, EntryNoDest>>, 0),
                  Manifest(<<>>, <<>>, <<EntryA, EntryNoVarsFile>>, 0),
                  Yaml(<< <<"vars", D(<< <<"a", I(1)>> >>)>> >>, 0)}]]

\* dest: with --force, one destination inside a directory that does not exist
\* yet and one that is a directory; the definition file is rewritten to hold a
\* new unit that fails, the first unit as it was and a new unit that succeeds
EntrySub == TemplateEntry(S("T1"), S("S/D"), <<S("F")>>, <<>>)
EntryDir == TemplateEntry(S("T2"), S("D2"), <<S("F")>>, <<>>)
EntryDirAgain == TemplateEntry(S("T2"), S("D2"), <<S("F")>>, << <<"b", I(1)>> >>)
EntryFile == TemplateEntry(S("T2"), S("D1"), <<S("F")>>, <<>>)

ScenarioDest ==
    [force_overwrite |-> TRUE,
     fs |-> [NoFiles EXCEPT
        !["M"] = Manifest(<<>>, <<>>, <<EntrySub, EntryDir>>, 0),
        !["F"] = Doc1("a", S("p")),
        !["D2"] = Directory,
        !["T1"] = Doc1("x", Tpl("a")),
        !["T2"] = Doc1("y", Tpl("a"))],
     edits |-> [NoEdits EXCEPT
        !["M"] = {Manifest(<<>>, <<>>, <<EntrySub, EntryDir>>, 0),
                  Manifest(<<>>, <<>>, <<EntryDirAgain, EntrySub, EntryFile>>, 0)},
        !["F"] = {Doc1("a", S("p")), Doc1("a", S("q"))}]]

\* layers: every layer defines 'a', and each layer reads a key of a layer
\* below; the definition file is rewritten with fewer layers and with the
\* global files in the other order
GlobalVars == << <<"a", S("gv")>>, <<"c", Tpl("a")>> >>
UnitVars == << <<"a", S("uv")>>, <<"d", Tpl("b")>> >>

ScenarioLayers ==
    [force_overwrite |-> TRUE,
     fs |-> [NoFiles EXCEPT
        !["M"] = Manifest(<<S("F"), S("G")>>, GlobalVars,
                    <<TemplateEntry(S("T1"), S("D1"), <<S("T2")>>, UnitVars)>>, 0),
        !["F"] = Doc2("a", S("gf"), "b", Tpl("a")),
        !["G"] = Doc1("a", S("g")),
        !["T2"] = Doc2("a", S("ui"), "e", Tpl("c")),
        !["T1"] = Doc2("x", Tpl("a"), "y", Tpl("b"))],
     edits |-> [NoEdits EXCEPT
        !["M"] = {Manifest(<<S("F"), S("G")>>, GlobalVars,
                      <<TemplateEntry(S("T1"), S("D1"), <<S("T2")>>, UnitVars)>>, 0),
                  Manifest(<<S("F"), S("G")>>, GlobalVars,
                      <<TemplateEntry(S("T1"), S("D1"), <<S("T2")>>, <<>>)>>, 0),
                  Manifest(<<S("F"), S("G")>>, GlobalVars,
                      <<TemplateEntry(S("T1"), S("D1"), <<>>, <<>>)>>, 0),
                  Manifest(<<S("F"), S("G")>>, <<>>,
                      <<TemplateEntry(S("T1"), S("D1"), <<>>, <<>>)>>, 0),
                  Manifest(<<S("G"), S("F")>>, <<>>,
                      <<TemplateEntry(S("T1"), S("D1"), <<>>, UnitVars)>>, 0),
                  Manifest(<<S("G")>>, <<>>,
                      <<TemplateEntry(S("T1"), S("D1"), <<S("F")>>, <<>>)>>, 0)}]]

\* two: the program is given two definition files; the first one does not
\* parse at start
ScenarioTwo ==
    [force_overwrite |-> TRUE,
     fs |-> [NoFiles EXCEPT
        !["M2"] = BadYaml,
        !["M"] = Manifest(<<>>, <<>>, <<EntryA>>, 0),
        !["F"] = Doc1("a", S("p")),
        !["T1"] = Doc1("x", Tpl("a"))],
     edits |-> [NoEdits EXCEPT
        !["M2"] = {BadYaml, Manifest(<<>>, <<>>, <<>>, 0)},
        !["F"] = {Doc1("a", S("p")), Doc1("a", S("q")), BadYaml}]]

\* once, onceok, oncefail: the program is run without --auto-render, on two
\* definition files of which the first does not parse, on two that parse, and
\* on one with a unit that cannot be written
ScenarioOnceOk == [ScenarioTwo EXCEPT !.fs["M2"] = Manifest(<<>>, <<>>, <<>>, 0)]

OneShot == {"once", "onceok", "oncefail"}

\* the scenarios in which the user interrupts the program
Interrupted == {"two", "shared", "storm"}

\* args.definition_file
Definitions(name) ==
    IF name \in {"two", "once", "onceok"} THEN <<OtherDefinitionPath, DefinitionPath>>
    ELSE <<DefinitionPath>>

\* vanish: variable files are deleted and created while the program runs; the
\* definition file is rewritten to include a file that is deleted (G), one that
\* does not exist yet (F) and a directory (S)
EntryG == TemplateEntry(S("T1"), S("D1"), <<S("G")>>, <<>>)
EntryF == TemplateEntry(S("T1"), S("D1"), <<S("F")>>, <<>>)
EntryS == TemplateEntry(S("T1"), S("D1"), <<S("S")>>, <<>>)

ScenarioVanish ==
    [force_overwrite |-> TRUE,
     fs |-> [NoFiles EXCEPT
        !["M"] = Manifest(<<>>, <<>>, <<EntryG>>, 0),
        !["G"] = Doc1("a", S("p")),
        !["S"] = Directory,
        !["T1"] = Doc1("x", Tpl("a"))],
     edits |-> [NoEdits EXCEPT
        !["M"] = {Manifest(<<>>, <<>>, <<EntryG>>, 0),
                  Manifest(<<>>, <<>>, <<EntryF>>, 0),
                  Manifest(<<>>, <<>>, <<EntryS>>, 0)}]]

\* the files the environment may delete, by path and content
Removals(name) ==
    IF name = "vanish" THEN [NoEdits EXCEPT !["G"] = {Doc1("a", S("p"))}] ELSE NoEdits

\* the files the environment may create, by path
Creations(name) ==
    IF name = "vanish"
    THEN [NoEdits EXCEPT !["F"] = {Doc1("a", S("r"))}]
    ELSE NoEdits

\* renamed: a variable file is moved away and back while the program runs
ScenarioRenamed ==
    [force_overwrite |-> TRUE,
     fs |-> [NoFiles EXCEPT
        !["M"] = Manifest(<<>>, <<>>, <<EntryA>>, 0),
        !["F"] = Doc1("a", S("p")),
        !["T1"] = Doc1("x", Tpl("a"))],
     edits |-> [NoEdits EXCEPT
        !["F"] = {Doc1("a", S("p")), Doc1("a", S("q"))}]]

\* reorder: the definition file is rewritten with the keys of the unit's vars
\* in another order; 'b' is an expression over 'a', which the global file F
\* defines too
EntryAB == TemplateEntry(S("T1"), S("D1"), <<>>, << <<"a", S("q")>>, <<"b", Tpl("a")>> >>)
EntryBA == TemplateEntry(S("T1"), S("D1"), <<>>, << <<"b", Tpl("a")>>, <<"a", S("q")>> >>)

ScenarioReorder ==
    [force_overwrite |-> TRUE,
     fs |-> [NoFiles EXCEPT
        !["M"] = Manifest(<<S("F")>>, <<>>, <<EntryAB>>, 0),
        !["F"] = Doc1("a", S("p")),
        !["T1"] = Doc1("x", Tpl("b"))],
     edits |-> [NoEdits EXCEPT
        !["M"] = {Manifest(<<S("F")>>, <<>>, <<EntryAB>>, 0),
                  Manifest(<<S("F")>>, <<>>, <<EntryBA>>, 0),
                  Manifest(<<S("F")>>, <<>>, <<EntryAB>>, 1)}]]

\* storm: a unit over the global files F and G; F is rewritten with documents
\* that cannot be loaded, one after the other, while a change of G waits
ScenarioStorm ==
    [force_overwrite |-> TRUE,
     fs |-> [NoFiles EXCEPT
        !["M"] = Manifest(<<S("F"), S("G")>>, <<>>,
                    <<TemplateEntry(S("T1"), S("D1"), <<>>, <<>>)>>, 0),
        !["F"] = Doc1("a", S("p")),
        !["G"] = Doc1("b", S("p")),
        !["T1"] = Doc2("x", Tpl("a"), "y", Tpl("b"))],
     edits |-> [NoEdits EXCEPT
        !["F"] = {Doc1("a", S("p")), BadYaml, Doc1("a", Tpl("nil"))},
        !["G"] = {Doc1("b", S("p")), Doc1("b", S("q"))}]]

\* documents: definition files that keep or break the rules of the syntax, at
\* the top or in a unit, first or after a unit that can be built or after one
\* that cannot; include_vars is given as a list or as a string; one document
\* declares the same unit twice, one a unit without variables
Unit(items) == D(<< <<"src", S("T1")>>, <<"dest", S("D1")>> >> \o items)

IncludeF == <<"include_vars", L(<<S("F")>>)>>

IncludeBare == <<"include_vars", S("F")>>

SchemaEntries ==
    {D(<< <<"dest", S("D1")>>, IncludeF >>),
     D(<< <<"src", I(1)>>, <<"dest", S("D1")>>, IncludeF >>),
     D(<< <<"src", S("T1")>>, IncludeF >>),
     D(<< <<"src", S("T1")>>, <<"dest", L(<<S("D1")>>)>>, IncludeF >>),
     Unit(<< IncludeF, <<"vars", S("a")>> >>),
     Unit(<< IncludeF, <<"vars", L(<<S("a")>>)>> >>),
     Unit(<< <<"include_vars", I(1)>> >>),
     Unit(<< <<"include_vars", D(<< <<"a", S("F")>> >>)>> >>),
     Unit(<< IncludeF >>),
     Unit(<<>>),
     Unit(<< IncludeBare >>),
     Unit(<< IncludeBare, <<"vars", D(<< <<"b", I(1)>> >>)>> >>)}

SchemaTemplates ==
    {<<>>, << <<"templates", I(1)>> >>, << <<"templates", Unit(<< IncludeF >>)>> >>,
     << <<"templates", L(<<Unit(<< IncludeF >>), Unit(<< IncludeF >>)>>)>> >>}
        \cup {<< <<"templates", L(<<entry>>)>> >> : entry \in SchemaEntries}
        \cup {<< <<"templates", L(<<first, entry>>)>> >> :
                 first \in {EntryN, EntryNoVarsFile},
                 entry \in {D(<< <<"src", S("T1")>>, IncludeF >>),
                            Unit(<< <<"include_vars", I(1)>> >>)}}

SchemaGlobals ==
    {<<>>, << <<"vars", L(<<S("a")>>)>> >>, << <<"include_vars", I(1)>> >>,
     << IncludeF >>, << IncludeBare >>, << <<"vars", D(<< <<"b", I(1)>> >>)>> >>}

SchemaDocuments ==
    {Yaml(top \o global, 0) : top \in SchemaTemplates, global \in SchemaGlobals}

\* the options with an include_vars string written as the list that holds it
ListedOptions(items) ==
    [j \in 1..Len(items) |->
        IF items[j][1] = "include_vars" /\ items[j][2].k = "str"
        THEN <<"include_vars", L(<<items[j][2]>>)>> ELSE items[j]]

\* the document with every include_vars string, of the top level and of the
\* units, written as a list
Listed(doc) ==
    [doc EXCEPT !.v =
        [j \in 1..Len(ListedOptions(doc.v)) |->
            IF ListedOptions(doc.v)[j][1] = "templates" /\ ListedOptions(doc.v)[j][2].k = "list"
            THEN <<"templates",
                   L([n \in 1..Len(ListedOptions(doc.v)[j][2].v) |->
                        IF ListedOptions(doc.v)[j][2].v[n].k = "dict"
                        THEN D(ListedOptions(ListedOptions(doc.v)[j][2].v[n].v))
                        ELSE ListedOptions(doc.v)[j][2].v[n]])>>
            ELSE ListedOptions(doc.v)[j]]]

\* what the variable file F holds: a document, a document that refers to a
\* variable nobody defines, text that is no YAML
VariableDocuments == {Doc1("a", S("p")), Doc1("a", Tpl("nil")), BadYaml}

\* the definition files beside which the variable file is varied: one unit
\* that includes F
VariedDocuments ==
    {Yaml(<< <<"templates", L(<<entry>>)>> >>, 0) :
        entry \in {Unit(<< IncludeF >>), Unit(<< IncludeBare >>)}}

VariablesFor(doc) == IF doc \in VariedDocuments THEN VariableDocuments ELSE {}

\* the rewrites of a document that change the spelling of include_vars only
Respelled(doc) == {other \in SchemaDocuments : other # doc /\ Listed(other) = Listed(doc)}

ScenarioDocuments ==
    [force_overwrite |-> TRUE,
     fs |-> [NoFiles EXCEPT
        !["F"] = Doc1("a", S("p")),
        !["T1"] = Doc1("x", Tpl("a")),
        !["T2"] = Doc1("y", Tpl("a"))],
     edits |-> NoEdits]

\* the files the environment may move away and back, by scenario
Moves(name) == IF name = "renamed" THEN {"F"} ELSE {}

\* where a file is while it is away
Aside(path) == "F~"

ScenarioNames ==
    {"chain", "shared", "isolation", "rebind", "reparse", "noforce", "badparse", "vanish",
     "dest", "layers", "two", "renamed", "once", "onceok", "oncefail", "reorder"}

Scenario(name) ==
    CASE name = "chain" -> ScenarioChain
      [] name = "shared" -> ScenarioShared
      [] name = "isolation" -> ScenarioIsolation
      [] name = "rebind" -> ScenarioRebind
      [] name = "reparse" -> ScenarioReparse
      [] name = "noforce" -> ScenarioNoForce
      [] name = "badparse" -> ScenarioBadParse
      [] name = "vanish" -> ScenarioVanish
      [] name = "dest" -> ScenarioDest
      [] name = "layers" -> ScenarioLayers
      [] name = "two" -> ScenarioTwo
      [] name = "renamed" -> ScenarioRenamed
      [] name = "once" -> ScenarioTwo
      [] name = "onceok" -> ScenarioOnceOk
      [] name = "oncefail" -> ScenarioNoForce
      [] name = "documents" -> ScenarioDocuments
      [] name = "storm" -> ScenarioStorm
      [] name = "reorder" -> ScenarioReorder

(***************************************************************************)
(* State                                                                   *)
(***************************************************************************)
VARIABLES
    scenario,           \* the name of the scenario, fixed at start
    pc,                 \* "init": cli has built the Definitions; "watch": in the loop of
                        \* AutoRenderer.start; "stopped": the loop is left; "exit(0)",
                        \* "exit(1)": the run without --auto-render has ended
    fs,                 \* the filesystem
    files,              \* CachedFile.files
    pending,            \* paths whose notifier has an event to read
    poll,               \* the notifiers (by path) the running poll cycle has still to check
    units,              \* the Template instances alive
    templates,          \* Definition.templates: thash -> Template
    changed_templates,  \* Definition.changed_templates
    hist                \* what the last step did

vars == <<scenario, pc, fs, files, pending, poll, units, templates, changed_templates, hist>>

\* cli.py --auto-render: Definition, ContextChain and Template watch their files
auto_render == scenario \notin OneShot

World ==
    [fs |-> fs, files |-> files, pending |-> pending, poll |-> poll, units |-> units,
     templates |-> templates, changed_templates |-> changed_templates, hist |-> <<>>,
     force_overwrite |-> Scenario(scenario).force_overwrite,
     watch_changes |-> auto_render, interrupt |-> ""]

\* the instances something still refers to: the other ones are garbage
Referenced(w) ==
    {w.templates[h] : h \in DOMAIN w.templates}
        \cup UNION {{w.files[j].on_change_event[n].u :
                         n \in 1..Len(w.files[j].on_change_event)} : j \in 1..Len(w.files)}

Alive(w) == [u \in DOMAIN w.units \cap Referenced(w) |-> w.units[u]]

\* the step stays within the bound on instances
InBounds(w) == DOMAIN w.units \subseteq 1..MaxInst

Install(w) ==
    /\ InBounds(w)
    /\ fs' = w.fs
    /\ files' = w.files
    /\ pending' = w.pending
    /\ poll' = w.poll
    /\ units' = Alive(w)
    /\ templates' = w.templates
    /\ changed_templates' = w.changed_templates
    /\ hist' = w.hist

\* cli: Definition(path, force_overwrite, watch_changes) for every definition file
Init ==
    /\ scenario \in ScenarioNames
    /\ pc = "init"
    /\ fs = Scenario(scenario).fs
    /\ files = [j \in 1..Len(Definitions(scenario)) |->
                    [NewCachedFile(fs, Definitions(scenario)[j], auto_render)
                        EXCEPT !.on_change_event =
                            <<IF Definitions(scenario)[j] = DefinitionPath
                              THEN DefHandler ELSE OtherDefHandler>>]]
    /\ pending = {}
    /\ poll = <<>>
    /\ units = <<>>
    /\ templates = <<>>
    /\ changed_templates = <<>>
    /\ hist = <<>>

\* the exit status: 1 if some process returned False, and 1 from the
\* interpreter if an exception ended the loop, else 0
ExitStatus(r) == IF ~r.ok THEN 1 ELSE IF r.v THEN 1 ELSE 0

\* cli without --auto-render: every definition is processed, then exit(1) if
\* some process returned False, else exit(0)
RunOnce ==
    /\ pc = "init"
    /\ ~auto_render
    /\ Install(Log(ProcessEach(World, Definitions(scenario), 1, FALSE).w,
                   [e |-> "exit",
                    code |-> ExitStatus(ProcessEach(World, Definitions(scenario), 1, FALSE))]))
    /\ pc' = IF ExitStatus(ProcessEach(World, Definitions(scenario), 1, FALSE)) = 1
             THEN "exit(1)" ELSE "exit(0)"
    /\ UNCHANGED scenario

\* AutoRenderer.start: render on start
Start ==
    /\ pc = "init"
    /\ auto_render
    /\ Install(ProcessAll(World, Definitions(scenario), 1))
    /\ pc' = "watch"
    /\ UNCHANGED scenario

\* KeyboardInterrupt in the loop: `except KeyboardInterrupt: break`
Cancel ==
    /\ pc = "watch"
    /\ scenario \in Interrupted
    /\ pc' = "stopped"
    /\ hist' = <<[e |-> "cancel"]>>
    /\ UNCHANGED <<scenario, fs, files, pending, poll, units, templates, changed_templates>>

\* the environment rewrites a file in place: IN_MODIFY on its watch
Edit(path, content) ==
    /\ pc \in {"watch", "stopped"}
    /\ exists(fs, path)
    /\ fs' = [fs EXCEPT ![path] = content]
    /\ pending' = IF HasFile(files, path) /\ File(World, path).notifier
                  THEN pending \cup {path} ELSE pending
    /\ hist' = <<[e |-> "edit", path |-> path]>>
    /\ UNCHANGED <<scenario, pc, files, poll, units, templates, changed_templates>>

\* the environment deletes a file: the kernel drops the watch on it; whether
\* the notifier hands the closing event of the watch to _on_change is the
\* library's choice; events queued before stay readable
Remove(path, notified) ==
    /\ pc = "watch"
    /\ fs[path] \in Removals(scenario)[path]
    /\ fs' = [fs EXCEPT ![path] = Missing]
    /\ files' = IF HasFile(files, path)
                THEN [files EXCEPT ![FileIdx(files, path)].notifier = FALSE]
                ELSE files
    /\ pending' = IF notified /\ HasFile(files, path) /\ File(World, path).notifier
                  THEN pending \cup {path} ELSE pending
    /\ hist' = <<[e |-> "remove_file", path |-> path]>>
    /\ UNCHANGED <<scenario, pc, poll, units, templates, changed_templates>>

\* the environment creates a file on a path that has none: no watch is on it
Create(path, content) ==
    /\ pc = "watch"
    /\ ~exists(fs, path)
    /\ fs' = [fs EXCEPT ![path] = content]
    /\ hist' = <<[e |-> "create_file", path |-> path]>>
    /\ UNCHANGED <<scenario, pc, files, pending, poll, units, templates, changed_templates>>

\* a cycle that checks the notifiers from the last registered file to the first
PollOrderReversed(fl) == [j \in 1..Len(fl) |-> fl[Len(fl) + 1 - j].path]

\* [f.notifier for _, f in CachedFile.files.items()]: a dict keeps the order
\* in which its keys were inserted
PollOrder(fl) == [j \in 1..Len(fl) |-> fl[j].path]

\* the environment renames a file, away from its path or back to it: the watch
\* is on the file, not on the name, and IN_MOVE_SELF is not in its mask, so the
\* watch stays armed and reports nothing
Move(from, to) ==
    /\ pc = "watch"
    /\ isfile(fs, from)
    /\ ~exists(fs, to)
    /\ fs' = [fs EXCEPT ![from] = Missing, ![to] = fs[from]]
    /\ hist' = <<[e |-> "move_file", path |-> from]>>
    /\ UNCHANGED <<scenario, pc, files, pending, poll, units, templates, changed_templates>>

\* `for notifier in [f.notifier for _, f in CachedFile.files.items()]`
PollBegin ==
    /\ pc = "watch"
    /\ poll = <<>>
    /\ pending # {}
    /\ poll' = PollOrder(files)
    /\ hist' = <<[e |-> "poll"]>>
    /\ UNCHANGED <<scenario, pc, fs, files, pending, units, templates, changed_templates>>

\* the notifiers still to check, from the first one that has an event
RECURSIVE FromFirstPending(_, _)
FromFirstPending(paths, events) ==
    IF paths = <<>> \/ Head(paths) \in events THEN paths
    ELSE FromFirstPending(Tail(paths), events)

\* a loop that an exception of a handler ends
LoopEndsOnError(w) ==
    IF \E n \in 1..Len(w.hist) : w.hist[n].e = "break" THEN "stopped" ELSE "watch"

\* where the loop is after process_events: `except Exception: break` leaves the
\* `for`, not the `while`
LoopAfter(w) == "watch"

\* a dispatch whose exception throws away the events of the notifiers the
\* cycle has not checked yet
DispatchDiscarding(w, path) ==
    With(CachedFileOnChange(Log(w, [e |-> "event", path |-> path]), path), LAMBDA r :
        IF r.ok THEN r.w
        ELSE [Log(r.w, [e |-> "break", error |-> r.v])
                 EXCEPT !.poll = <<>>,
                        !.pending = @ \ {r.w.poll[j] : j \in 1..Len(r.w.poll)}])

\* process_events of the notifier of path, whose event read_events has taken;
\* `except Exception: break` ends the cycle
Dispatch(w, path) ==
    With(CachedFileOnChange(Log(w, [e |-> "event", path |-> path]), path), LAMBDA r :
        IF r.ok THEN r.w
        ELSE [Log(r.w, [e |-> "break", error |-> r.v]) EXCEPT !.poll = <<>>])

\* the rest of the `for notifier in ...` loop up to and including the next
\* notifier whose check_events is true
PollStep ==
    /\ pc = "watch"
    /\ poll # <<>>
    /\ IF FromFirstPending(poll, pending) = <<>>
       THEN /\ poll' = <<>>
            /\ hist' = <<[e |-> "sleep"]>>
            /\ UNCHANGED <<fs, files, pending, units, templates, changed_templates, pc>>
       ELSE /\ Install(Dispatch([World EXCEPT
                                   !.pending = @ \ {Head(FromFirstPending(poll, pending))},
                                   !.poll = Tail(FromFirstPending(poll, pending))],
                                Head(FromFirstPending(poll, pending))))
            /\ pc' = LoopAfter(Dispatch([World EXCEPT
                                   !.pending = @ \ {Head(FromFirstPending(poll, pending))},
                                   !.poll = Tail(FromFirstPending(poll, pending))],
                                Head(FromFirstPending(poll, pending))))
    /\ UNCHANGED scenario

\* process_events of the notifier of path while SIGINT arrives at the point at
DispatchInterrupted(w, path, at) ==
    CachedFileOnChange(Log([w EXCEPT !.interrupt = at], [e |-> "event", path |-> path]),
                       path)

\* the step of PollStep with SIGINT in the handler: KeyboardInterrupt passes
\* `except KeyboardInterrupt: raise` and ends the loop at
\* `except KeyboardInterrupt: break`
PollStepInterrupted ==
    /\ pc = "watch"
    /\ scenario \in Interrupted
    /\ FromFirstPending(poll, pending) # <<>>
    /\ \E at \in InterruptPoints :
          /\ ~DispatchInterrupted([World EXCEPT
                                      !.pending = @ \ {Head(FromFirstPending(poll, pending))},
                                      !.poll = Tail(FromFirstPending(poll, pending))],
                                  Head(FromFirstPending(poll, pending)), at).ok
          /\ DispatchInterrupted([World EXCEPT
                                      !.pending = @ \ {Head(FromFirstPending(poll, pending))},
                                      !.poll = Tail(FromFirstPending(poll, pending))],
                                 Head(FromFirstPending(poll, pending)), at).v
                = "KeyboardInterrupt"
          /\ Install(DispatchInterrupted([World EXCEPT
                                      !.pending = @ \ {Head(FromFirstPending(poll, pending))},
                                      !.poll = Tail(FromFirstPending(poll, pending))],
                                 Head(FromFirstPending(poll, pending)), at).w)
    /\ pc' = "stopped"
    /\ UNCHANGED scenario

Next ==
    \/ Start
    \/ RunOnce
    \/ \E path \in Paths : \E content \in Scenario(scenario).edits[path] : Edit(path, content)
    \/ \E path \in Paths : \E notified \in BOOLEAN : Remove(path, notified)
    \/ \E path \in Paths : \E content \in Creations(scenario)[path] : Create(path, content)
    \/ \E path \in Moves(scenario) : Move(path, Aside(path)) \/ Move(Aside(path), path)
    \/ PollBegin
    \/ PollStep
    \/ PollStepInterrupted
    \/ Cancel

Spec == Init /\ [][Next]_vars

(***************************************************************************)
(* The functions on their own: the arguments are drawn at the start and    *)
(* hist records the calls.                                                 *)
(***************************************************************************)
\* how often a function is applied to its own result
MaxApply == 2

\* the longest list in a variable source
MaxItems == 2

\* the dicts with keys among keys and values among values
DictsOver(keys, values) == UNION {[ks -> values] : ks \in SUBSET keys}

AsDict(context) == [k |-> "dict", v |-> context]

\* the values below a key of an argument of merge_dicts
InnerValues == {I(1), I(2), I(9), None, AsDict(EmptyDict)}

\* the values of key 'd' of an argument of merge_dicts
TopValues ==
    {AsDict(f) : f \in DictsOver({"x", "y"}, InnerValues)}
        \cup {I(1), None, L(<<I(1)>>), L(<<I(2)>>)}

\* the arguments of merge_dicts: 'd' is anything, 'e' an int
MergeArguments ==
    {f \in DictsOver({"d", "e"}, TopValues \cup {I(2)}) :
        "e" \in DOMAIN f => f["e"] \in {I(1), I(2)}}

\* the sequences over items of length up to n
SeqsUpTo(items, n) == UNION {[1..m -> items] : m \in 0..n}

\* scalars in a document: an int, strs without and with the placeholder, a
\* block scalar with the placeholder
OmitScalars ==
    {I(1), S("x"), S(omit_placeholder), S("x__omit_place_holder__"),
     ScalarString(omit_placeholder)}

\* one optional item of a mapping
Optional(key, values) == {<<>>} \cup {<< <<key, val>> >> : val \in values}

\* the arguments of remove_omit_from_dict: {a: 'x', b: ..., c: {d: ..., e: ...}, f: [...]}
OmitArguments ==
    {D(<< <<"a", S("x")>> >> \o b \o c \o f) :
        b \in Optional("b", {S(omit_placeholder), ScalarString(omit_placeholder)}),
        c \in Optional("c", {D(d \o e) :
                 d \in Optional("d", {S("y"), S(omit_placeholder)}),
                 e \in Optional("e", {S("y"), S("x__omit_place_holder__")})}),
        f \in Optional("f", {L(items) :
                 items \in SeqsUpTo(OmitScalars
                              \cup {L(<<S(omit_placeholder), I(1)>>),
                                    D(<< <<"d", S(omit_placeholder)>> >>)}, 3)})}

\* the contexts of a predecessor: 'a' and 'c' as an earlier source set them, 'v'
\* a str, or a str that is the placeholder
PredecessorContexts ==
    {f \in DictsOver({"a", "c", "v"},
                     {S("old"), AsDict("d" :> S("old")), S("val"), S(omit_placeholder)}) :
        /\ "a" \in DOMAIN f => f["a"] = S("old")
        /\ "c" \in DOMAIN f => f["c"] = AsDict("d" :> S("old"))
        /\ "v" \in DOMAIN f => f["v"] \in {S("val"), S(omit_placeholder)}}

\* the items of the list 'f' of a variable source
OmitItems ==
    {I(1), Tpl("omit"), Tpl("v"), L(<<Tpl("omit"), I(1)>>), D(<< <<"d", Tpl("omit")>> >>)}

\* the variable sources: {a: ..., c: {d: ..., e: ...}, f: [...]} with values that
\* are plain, '{{ omit }}' or '{{ v }}'
OmitSources ==
    {a \o c \o f :
        a \in Optional("a", {S("new"), Tpl("omit"), Tpl("v")}),
        c \in Optional("c", {D(d \o e) :
                 d \in Optional("d", {S("y"), Tpl("omit")}),
                 e \in Optional("e", {S("y"), Tpl("v")})}),
        f \in Optional("f", {L(items) : items \in SeqsUpTo(OmitItems, MaxItems)})}

FnInit ==
    /\ scenario = "functions"
    /\ pc = "call"
    /\ fs = NoFiles
    /\ files = <<>>
    /\ pending = {}
    /\ poll = <<>>
    /\ units = <<>>
    /\ templates = <<>>
    /\ changed_templates = <<>>
    /\ \/ \E x \in MergeArguments : \E y \in MergeArguments :
             hist = <<[e |-> "merge_dicts.args", x |-> x, y |-> y]>>
       \/ \E value \in OmitArguments :
             hist = <<[e |-> "remove_omit_from_dict.args", result |-> value]>>
       \/ \E the_dict \in OmitSources : \E context \in PredecessorContexts :
             hist = <<[e |-> "render_dict_and_add_to_context.args",
                       the_dict |-> the_dict, context |-> context]>>

\* merged = merge_dicts(x, y)
CallMergeDicts ==
    /\ hist[1].e = "merge_dicts.args"
    /\ Len(hist) = 1
    /\ hist' = Append(hist,
                  IF MergeFails(hist[1].x, hist[1].y)
                  THEN [e |-> "merge_dicts", raised |-> "TypeError", result |-> None]
                  ELSE [e |-> "merge_dicts", raised |-> "",
                        result |-> AsDict(merge_dicts(hist[1].x, hist[1].y))])
    /\ UNCHANGED <<scenario, pc, fs, files, pending, poll, units, templates,
                   changed_templates>>

\* value = remove_omit_from_dict(value)
CallRemoveOmit ==
    /\ hist[1].e = "remove_omit_from_dict.args"
    /\ Len(hist) <= MaxApply
    /\ hist' = Append(hist, [e |-> "remove_omit_from_dict",
                             result |-> remove_omit_from_dict(hist[Len(hist)].result)])
    /\ UNCHANGED <<scenario, pc, fs, files, pending, poll, units, templates,
                   changed_templates>>

\* self.cache = JinjaRenderer.render_dict_and_add_to_context(the_dict, parent_context)
CallRenderDict ==
    /\ hist[1].e = "render_dict_and_add_to_context.args"
    /\ Len(hist) = 1
    /\ hist' = Append(hist,
                  [e |-> "render_dict_and_add_to_context",
                   ok |-> render_dict_and_add_to_context(hist[1].the_dict, hist[1].context).ok,
                   result |-> render_dict_and_add_to_context(hist[1].the_dict,
                                                             hist[1].context).v])
    /\ UNCHANGED <<scenario, pc, fs, files, pending, poll, units, templates,
                   changed_templates>>

FnNext == CallMergeDicts \/ CallRemoveOmit \/ CallRenderDict

FnSpec == FnInit /\ [][FnNext]_vars

(***************************************************************************)
(* The parse on its own: the program is started with --auto-render on one  *)
(* definition file and one variable file drawn at the start; the           *)
(* definition file is rewritten with another spelling of its include_vars, *)
(* the variable file with any of its documents.                            *)
(***************************************************************************)
ParseInit ==
    /\ scenario = "documents"
    /\ pc = "init"
    /\ \E doc \in SchemaDocuments : \E variables \in VariablesFor(doc) \cup {Doc1("a", S("p"))} :
          fs = [ScenarioDocuments.fs EXCEPT ![DefinitionPath] = doc, !["F"] = variables]
    /\ files = <<[NewCachedFile(fs, DefinitionPath, auto_render)
                     EXCEPT !.on_change_event = <<DefHandler>>]>>
    /\ pending = {}
    /\ poll = <<>>
    /\ units = <<>>
    /\ templates = <<>>
    /\ changed_templates = <<>>
    /\ hist = <<>>

ParseNext ==
    \/ Start
    \/ \E content \in Respelled(fs[DefinitionPath]) : Edit(DefinitionPath, content)
    \/ \E content \in VariablesFor(fs[DefinitionPath]) : Edit("F", content)
    \/ PollBegin
    \/ PollStep

ParseSpec == ParseInit /\ [][ParseNext]_vars

(***************************************************************************)
(* The loop on its own, with the fairness its scheduling gives: `while     *)
(* (True)` starts cycle after cycle and every cycle runs on to its end.    *)
(***************************************************************************)
LoopScenarios == {"storm", "two", "shared"}

LoopInit ==
    /\ scenario \in LoopScenarios
    /\ pc = "init"
    /\ fs = Scenario(scenario).fs
    /\ files = [j \in 1..Len(Definitions(scenario)) |->
                    [NewCachedFile(fs, Definitions(scenario)[j], auto_render)
                        EXCEPT !.on_change_event =
                            <<IF Definitions(scenario)[j] = DefinitionPath
                              THEN DefHandler ELSE OtherDefHandler>>]]
    /\ pending = {}
    /\ poll = <<>>
    /\ units = <<>>
    /\ templates = <<>>
    /\ changed_templates = <<>>
    /\ hist = <<>>

LoopNext ==
    \/ Start
    \/ \E path \in Paths : \E content \in Scenario(scenario).edits[path] : Edit(path, content)
    \/ PollBegin
    \/ PollStep
    \/ PollStepInterrupted
    \/ Cancel

\* ENABLED <<PollStep>>_vars: the cycle has a notifier left to check, and the
\* dispatch stays within the bound on instances
PollStepEnabled ==
    /\ pc = "watch"
    /\ poll # <<>>
    /\ FromFirstPending(poll, pending) # <<>> =>
          InBounds(Dispatch([World EXCEPT
                                !.pending = @ \ {Head(FromFirstPending(poll, pending))},
                                !.poll = Tail(FromFirstPending(poll, pending))],
                            Head(FromFirstPending(poll, pending))))

\* the loop is never left but by KeyboardInterrupt and no handler runs for
\* ever: WF_vars(PollBegin) /\ WF_vars(PollStep), the latter with ENABLED
\* written out
LoopFairness ==
    /\ WF_vars(PollBegin)
    /\ []<>(~PollStepEnabled) \/ []<><<PollStep>>_vars

LoopSpec == LoopInit /\ [][LoopNext]_vars /\ LoopFairness

(***************************************************************************)
(* What a step left behind, read from hist and from the state               *)
(***************************************************************************)
\* the Template instances of Definition.templates
Installed == {templates[h] : h \in DOMAIN templates}

\* the positions of a history that hold an entry of the given kind
EntriesIn(h, kind) == {n \in 1..Len(h) : h[n].e = kind}

Entries(kind) == EntriesIn(hist, kind)

\* the renders of unit u in hist
RendersOf(u) == {n \in Entries("render") : hist[n].u = u}

\* the re-read of the dispatched file gave another fingerprint than the cached one
ContentChanged == \E n \in Entries("changed") : hist[n].old # hist[n].new

\* an element of the chain of unit u got another context from the dispatched change
ContextChanged(u) == \E n \in Entries("element") : hist[n].u = u /\ hist[n].forwarded

\* entry n of history h, of an element of unit u, is followed by a render of u
\* before any other handler is called
RenderFollows(h, n, u) ==
    \E m \in (n + 1)..Len(h) :
        /\ h[m].e = "render" /\ h[m].u = u
        /\ \A k \in (n + 1)..(m - 1) : h[k].e \notin {"call", "element", "render"}

\* the step to the next state is a re-parse of the definition file that succeeded
Reparsed ==
    /\ hist' # <<>>
    /\ hist'[1].e = "event"
    /\ hist'[1].path = DefinitionPath
    /\ \E n \in EntriesIn(hist', "process") : hist'[n].error = ""

\* the handlers of instance u among the subscribers of path in the registry fl
HandlersOf(fl, path, u) ==
    IF HasFile(fl, path)
    THEN SelectSeq(fl[FileIdx(fl, path)].on_change_event, LAMBDA handler : handler.u = u)
    ELSE <<>>

\* the Template instances a re-parse drops from Definition.templates
Dropped == {templates[h] : h \in DOMAIN templates \ DOMAIN templates'}

\* the memoized merged context of unit u, if its tail holds one
HasMerged(u) ==
    /\ Len(units[u].chain) > 0
    /\ units[u].chain[Len(units[u].chain)].cache.k # "none"

Merged(u) == units[u].chain[Len(units[u].chain)].cache.v

\* the registry entries Template.render of unit u is subscribed to
RenderSubscriptions(u) ==
    {files[j].path : j \in {k \in 1..Len(files) :
        \E n \in 1..Len(files[k].on_change_event) :
            files[k].on_change_event[n] = RenderHandler(u)}}

\* the last step was process_events of the notifier of some file
Dispatched == hist # <<>> /\ hist[1].e = "event"

\* a context without the 'omit' key that render_string puts into it
NoOmit(context) == [key \in DOMAIN context \ {"omit"} |-> context[key]]

\* the files the chain of unit u reads
ChainPaths(u) ==
    {units[u].chain[i].source.path :
        i \in {j \in 1..Len(units[u].chain) : units[u].chain[j].source.k = "file"}}

\* the source of element i of unit u can be loaded as the registry has it
SourceLoads(u, i) ==
    units[u].chain[i].source.k = "file" =>
        /\ HasFile(files, units[u].chain[i].source.path)
        /\ File(World, units[u].chain[i].source.path).cache.k = "full"
        /\ ~LoadYamlFails(File(World, units[u].chain[i].source.path).cache.content)

SourceData(u, i) ==
    IF units[u].chain[i].source.k = "file"
    THEN load_yaml(File(World, units[u].chain[i].source.path).cache.content)
    ELSE units[u].chain[i].source.data

\* the merged context of the first i elements of unit u, computed anew from
\* the files as they are on disk
RECURSIVE FreshContext(_, _)
FreshContext(u, i) ==
    IF i = 0 THEN [ok |-> TRUE, v |-> EmptyDict]
    ELSE LET parent == FreshContext(u, i - 1)
             source == units[u].chain[i].source
         IN  IF ~parent.ok THEN parent
             ELSE IF source.k = "file"
             THEN IF LoadYamlFails(fs[source.path]) THEN [ok |-> FALSE, v |-> EmptyDict]
                  ELSE render_dict_and_add_to_context(load_yaml(fs[source.path]), parent.v)
             ELSE render_dict_and_add_to_context(source.data, parent.v)

FreshMerged(u) == FreshContext(u, Len(units[u].chain))

\* rendering unit u anew from the files on disk succeeds, with the template
\* file the unit is bound to and a destination it may write
FreshRenders(u) ==
    /\ Len(units[u].chain) > 0
    /\ FreshMerged(u).ok
    /\ ~RenderStringFails(units[u].src, FreshMerged(u).v)
    /\ ~RenderStringFails(units[u].dest, FreshMerged(u).v)
    /\ render_string(units[u].src, FreshMerged(u).v) = units[u].file
    /\ isfile(fs, units[u].file)
    /\ ~LoadYamlFails(fs[units[u].file])
    /\ ~TemplateRenderFails(fs[units[u].file], FreshMerged(u).v)
    /\ units[u].force_overwrite

FreshDest(u) == render_string(units[u].dest, FreshMerged(u).v)

FreshOutput(u) == ProcessedContent(fs[units[u].file], FreshMerged(u).v)

(***************************************************************************)
(* Properties                                                              *)
(***************************************************************************)
\* C1: every chain element that holds a memoized context holds the memoized
\* context of its predecessor (the empty mapping for the first element)
\* overlaid with its own rendered source data, so no element keeps a context
\* computed from an old context of its predecessor.
ChainInvariant ==
    \A u \in DOMAIN units : \A i \in 1..Len(units[u].chain) :
        (/\ units[u].chain[i].cache.k # "none"
         /\ i > 1 => units[u].chain[i - 1].cache.k # "none"
         /\ SourceLoads(u, i)
         /\ render_dict_and_add_to_context(SourceData(u, i),
                IF i > 1 THEN units[u].chain[i - 1].cache.v ELSE EmptyDict).ok)
        => NoOmit(units[u].chain[i].cache.v)
             = NoOmit(render_dict_and_add_to_context(SourceData(u, i),
                          IF i > 1 THEN units[u].chain[i - 1].cache.v ELSE EmptyDict).v)

\* C2: once the change of a variable file of a unit's chain has been
\* processed, the destination of the unit holds the template rendered
\* against the context merged from the current contents of all its sources,
\* wherever in the chain the changed file is.
OutputInSync ==
    (Dispatched /\ Entries("break") = {} /\ pending = {}) =>
        \A u \in Installed :
            (hist[1].path \in ChainPaths(u) /\ FreshRenders(u))
                => fs[FreshDest(u)] = FreshOutput(u)


\* C3: a dispatched change of a variable file that changes the merged
\* context of a unit depending on it re-renders that unit exactly once, not
\* zero times and not twice.
RenderedExactlyOnce ==
    (Dispatched /\ Entries("break") = {} /\ ContentChanged) =>
        \A u \in Installed :
            (hist[1].path \in ChainPaths(u) /\ ContextChanged(u))
                => Cardinality(RendersOf(u)) = 1

\* C4: on a change event a registry entry invokes its subscribers if and
\* only if the fingerprint of the re-read content differs from the cached
\* one; a rewrite with identical content invokes no subscriber and triggers
\* no render.
FileLevelSuppression ==
    [][(/\ hist' # <<>>
        /\ hist'[1].e = "event"
        /\ File(World, hist'[1].path).cache.k = "full"
        /\ isfile(fs, hist'[1].path))
       => /\ (EntriesIn(hist', "call") # {})
                <=> (hash(fs[hist'[1].path]) # File(World, hist'[1].path).cache.hash)
          /\ (hash(fs[hist'[1].path]) = File(World, hist'[1].path).cache.hash)
                => EntriesIn(hist', "render") = {}]_vars

\* C4 happens: an event for a rewrite with identical content was dispatched
SuppressedAtFile ==
    /\ Dispatched
    /\ \E n \in Entries("changed") : hist[n].old = hist[n].new
    /\ Entries("call") = {}

\* C5: a chain element that recomputed its context after a change of its
\* source forwards the notification, and so triggers the render of its
\* unit, if and only if the fingerprint of its new merged context differs
\* from the previous one.
ContextLevelSuppression ==
    [][\A n \in EntriesIn(hist', "element") :
          hist'[n].ok =>
             /\ hist'[n].u \in DOMAIN units \cap DOMAIN units'
             /\ units[hist'[n].u].subscribed =>
                   (RenderFollows(hist', n, hist'[n].u)
                      <=> (units'[hist'[n].u].chain[hist'[n].i].cache_hash
                             # units[hist'[n].u].chain[hist'[n].i].cache_hash))]_vars

\* C5 happens: the file of an element changed, its merged context did not
SuppressedAtContext ==
    /\ Dispatched
    /\ ContentChanged
    /\ \E n \in Entries("element") :
          /\ hist[n].ok
          /\ hist[n].new = hist[n].old
          /\ ~RenderFollows(hist, n, hist[n].u)

\* C6: once a unit has rendered, it is bound to the source file its src
\* pattern resolves to under the current context and is subscribed to
\* exactly one source entry, the one of that path.
SourceRebound ==
    \A u \in Installed :
        (/\ RendersOf(u) # {}
         /\ HasMerged(u)
         /\ ~RenderStringFails(units[u].src, Merged(u)))
        => /\ units[u].file = render_string(units[u].src, Merged(u))
           /\ RenderSubscriptions(u) = {render_string(units[u].src, Merged(u))}

\* C7: when a file that several units depend on changes, every subscriber
\* of the file is notified, whatever happens to the units notified before.
SiblingsNotified ==
    (Dispatched /\ ContentChanged /\ HasFile(files, hist[1].path)) =>
        \A j \in 1..Len(File(World, hist[1].path).on_change_event) :
            \E n \in Entries("call") :
                hist[n].handler = File(World, hist[1].path).on_change_event[j]

\* C8: render never raises: no caller sees an exception of Template.render,
\* whether it is called as a subscriber of the template file, through a chain
\* element or by process; and the last render of a unit returned true only
\* if the destination holds the rendered template.  KeyboardInterrupt, which
\* is the arrival of SIGINT and no failure of the render, is left aside.
RenderNeverRaises ==
    /\ \A n \in Entries("raised") : Entries("KeyboardInterrupt") = {} =>
          /\ hist[n].handler.k # "Template.render"
          /\ hist[n].handler.k = "ContextChainElement._on_change" =>
                \E m \in Entries("element") :
                    /\ m < n /\ ~hist[m].ok
                    /\ hist[m].u = hist[n].handler.u /\ hist[m].i = hist[n].handler.i
    /\ \A n \in Entries("process") :
          hist[n].result => \A m \in Entries("render") : hist[m].result
    /\ \A u \in DOMAIN units : \A n \in RendersOf(u) :
          (hist[n].result /\ \A m \in RendersOf(u) : m <= n) =>
             /\ HasMerged(u)
             /\ ~RenderStringFails(units[u].dest, Merged(u))
             /\ File(World, units[u].file).cache.k = "full"
             /\ fs[render_string(units[u].dest, Merged(u))]
                  = ProcessedContent(File(World, units[u].file).cache.content, Merged(u))

\* C8 happens: a render called by the registry failed and returned false
RenderFailed ==
    /\ Dispatched
    /\ \E n \in Entries("render") : ~hist[n].result
    /\ \E n \in Entries("call") : hist[n].handler.k = "Template.render"
    /\ Entries("raised") = {}


\* C9: a re-parse that yields the fingerprint of a unit already in the unit
\* map keeps that very instance, with its chain, memoized contexts,
\* subscriptions and registry entries, and does not render it; a re-parse of a definition file
\* whose meaning did not change keeps every instance and renders nothing.
ReparseReuses ==
    [][Reparsed =>
          /\ \A thash \in DOMAIN templates \cap DOMAIN templates' :
                /\ templates'[thash] = templates[thash]
                /\ units'[templates[thash]] = units[templates[thash]]
                /\ \A path \in Paths :
                      /\ HandlersOf(files', path, templates[thash])
                            = HandlersOf(files, path, templates[thash])
                      /\ HandlersOf(files, path, templates[thash]) # <<>> =>
                            /\ HasFile(files', path)
                            /\ files'[FileIdx(files', path)].cache
                                  = files[FileIdx(files, path)].cache
                /\ \A n \in EntriesIn(hist', "render") : hist'[n].u # templates[thash]
                /\ \A j \in 1..Len(changed_templates') : changed_templates'[j] # thash
          /\ (/\ File(World, DefinitionPath).cache.k = "full"
              /\ fs[DefinitionPath].k = "yaml"
              /\ File(World, DefinitionPath).cache.content.k = "yaml"
              /\ fs[DefinitionPath].v = File(World, DefinitionPath).cache.content.v)
             => /\ templates' = templates
                /\ EntriesIn(hist', "render") = {}]_vars

\* C9 happens: a re-parse rendered a new unit and kept another one unrendered
ReusedBesideNew ==
    /\ Dispatched
    /\ hist[1].path = DefinitionPath
    /\ \E n \in Entries("process") : hist[n].error = ""
    /\ Entries("render") # {}
    /\ \E u \in Installed : RendersOf(u) = {}

\* C10: a re-parse that no longer yields a unit removes exactly the
\* subscriptions of that unit, leaves the subscriptions of every retained
\* unit as they are, and evicts a registry entry if and only if no
\* subscriber of it remains.
ReparseRemoves ==
    [][Reparsed =>
          /\ \A u \in Dropped : \A path \in Paths : HandlersOf(files', path, u) = <<>>
          /\ \A thash \in DOMAIN templates \cap DOMAIN templates' : \A path \in Paths :
                HandlersOf(files', path, templates[thash])
                   = HandlersOf(files, path, templates[thash])
          /\ \A j \in 1..Len(files') : files'[j].on_change_event # <<>>
          /\ \A j \in 1..Len(files) :
                (\E n \in 1..Len(files[j].on_change_event) :
                    files[j].on_change_event[n].u \notin Dropped)
                => /\ HasFile(files', files[j].path)
                   /\ \A n \in 1..Len(files[j].on_change_event) :
                         files[j].on_change_event[n].u \notin Dropped =>
                            \E m \in 1..Len(files'[FileIdx(files', files[j].path)].on_change_event) :
                               files'[FileIdx(files', files[j].path)].on_change_event[m]
                                  = files[j].on_change_event[n]]_vars

\* C10 happens: a re-parse removed a unit, kept another one and evicted a file
UnitRemoved ==
    /\ Dispatched
    /\ hist[1].path = DefinitionPath
    /\ \E n \in Entries("process") : hist[n].error = ""
    /\ \E n \in Entries("remove") : hist[n].u \notin DOMAIN units
    /\ \E u \in Installed : RendersOf(u) = {}
    /\ \E path \in {"F", "G", "T1", "T2"} : ~HasFile(files, path)

\* C11: when _parse fails, process returns false, renders no unit and leaves
\* Definition.templates exactly as it was, also when units declared before
\* the offending one had been built.
ParseFailureInstallsNothing ==
    [][(/\ EntriesIn(hist', "process") # {}
        /\ ~_parse(SetCache(World, DefinitionPath, NoCache)).ok)
       => /\ \A n \in EntriesIn(hist', "process") : ~hist'[n].result
          /\ EntriesIn(hist', "render") = {}
          /\ templates' = templates]_vars

\* C11 happens: a re-parse failed after it had built a unit
ParseFailedMidway ==
    /\ Dispatched
    /\ hist[1].path = DefinitionPath
    /\ \E n \in Entries("process") : ~hist[n].result /\ hist[n].error # ""
    /\ Entries("_create_context") # {}
    /\ Entries("render") = {}
    /\ templates # <<>>

\* C12: cleanup_unused_files removes from the registry every entry without
\* subscribers, whose watch reports no event any more, and leaves every
\* entry with a subscriber as it is, with its watch, its events, its cache
\* and its subscribers; it runs in every parse that succeeds.
CleanupEvictsIdle ==
    /\ \A n \in Entries("cleanup") :
          /\ hist[n].after
                = SelectSeq(hist[n].before, LAMBDA f : Len(f.on_change_event) > 0)
          /\ hist[n].events_after
                = {path \in hist[n].events_before :
                      \E j \in 1..Len(hist[n].before) :
                         /\ hist[n].before[j].path = path
                         /\ Len(hist[n].before[j].on_change_event) > 0}
          /\ \A j \in 1..Len(files) : \A m \in 1..Len(hist[n].after) :
                files[j].path = hist[n].after[m].path =>
                   /\ files[j].notifier = hist[n].after[m].notifier
                   /\ files[j].on_change_event = hist[n].after[m].on_change_event
          /\ \A j \in 1..Len(hist[n].before) :
                Len(hist[n].before[j].on_change_event) = 0 =>
                   /\ ~HasFile(files, hist[n].before[j].path)
                   /\ hist[n].before[j].path \notin pending
                   /\ \A m \in 1..Len(poll) : poll[m] # hist[n].before[j].path
    /\ \A n \in Entries("process") :
          hist[n].error = "" => \E m \in Entries("cleanup") : m < n

\* C12 happens: after a unit was removed, a cleanup evicted an idle entry and
\* kept an entry that a unit that stays reads
IdleEvicted ==
    /\ Dispatched
    /\ \E n \in Entries("cleanup") : \E r \in Entries("remove") :
          /\ r < n
          /\ Len(hist[n].after) < Len(hist[n].before)
          /\ \E j \in 1..Len(hist[n].after) : \E u \in Installed :
                /\ hist[n].after[j].path \in ChainPaths(u)
                /\ HasFile(files, hist[n].after[j].path)

\* the read entries of path in hist: from the cache, from the filesystem, failed
ReadsOf(h, path) ==
    {n \in 1..Len(h) : h[n].e \in {"cached", "io.open", "read_failed"} /\ h[n].path = path}

\* the last read of path in hist failed
LastReadFailed(path) ==
    /\ ReadsOf(hist, path) # {}
    /\ hist[CHOOSE n \in ReadsOf(hist, path) : \A m \in ReadsOf(hist, path) : m <= n].e
          = "read_failed"

\* C13: Between steps every registry entry holds no content at all (never read,
\* or the last read failed) or content together with the fingerprint of exactly
\* that content and with its own path; an entry whose last read in the step
\* failed, in a parse or in a change notification, holds no content.
CacheConsistent ==
    \A j \in 1..Len(files) :
        /\ files[j].cache.k \in {"none", "empty", "full"}
        /\ files[j].cache.k = "full" =>
              /\ DOMAIN files[j].cache = {"k", "path", "content", "hash"}
              /\ files[j].cache.path = files[j].path
              /\ files[j].cache.hash = hash(files[j].cache.content)
        /\ LastReadFailed(files[j].path) => files[j].cache.k = "empty"

\* C13 happens: the re-read of a change notification failed on an entry that
\* held content, while another entry holds content
RereadFailed ==
    /\ Dispatched
    /\ HasFile(files, hist[1].path)
    /\ LastReadFailed(hist[1].path)
    /\ \E n \in Entries("break") : hist[n].error = "FileNotFoundError"
    /\ \E j \in 1..Len(files) : files[j].cache.k = "full" /\ files[j].path # hist[1].path

\* the step is process_events of the notifier of path
DispatchOf(h, path) == h # <<>> /\ h[1].e = "event" /\ h[1].path = path

\* C14: An entry that holds content is read from the filesystem again only by
\* its own change notification: in every other step, whatever the file on disk
\* has become, no read of the entry opens the file or fails, and the entry, if
\* it stays in the registry, keeps its content.  No step opens the file of an
\* entry more than once, and the step of a change notification for an entry
\* with content reads it from the filesystem exactly once, first.
ReadsAreCached ==
    [][\A j \in 1..Len(files) :
          LET path == files[j].path
              reads == ReadsOf(hist', path)
              opened == {n \in reads : hist'[n].e # "cached"}
          IN  /\ Cardinality({n \in reads : hist'[n].e = "io.open"}) <= 1
              /\ (files[j].cache.k = "full" /\ ~DispatchOf(hist', path)) =>
                    /\ opened = {}
                    /\ HasFile(files', path) =>
                          files'[FileIdx(files', path)].cache = files[j].cache
              /\ (files[j].cache.k = "full" /\ DispatchOf(hist', path)) =>
                    /\ Cardinality(opened) = 1
                    /\ \A n \in reads : \A m \in opened : m <= n]_vars

\* C14 happens: a step read an entry from its cache although the file on disk
\* had been rewritten or deleted since the entry read it
ServedFromCache ==
    \E n \in Entries("cached") :
        /\ ~DispatchOf(hist, hist[n].path)
        /\ HasFile(files, hist[n].path)
        /\ File(World, hist[n].path).cache.k = "full"
        /\ fs[hist[n].path] # File(World, hist[n].path).cache.content
        /\ ReadsOf(hist, hist[n].path) \subseteq Entries("cached")

\* C15: In every step that leaves a path as it is, a read of its entry that
\* finds no content in the cache (the entry is new, was never read, its last
\* read failed, or the step is its change notification) goes to the filesystem:
\* it fails with FileNotFoundError when nothing is at the path, with IOError
\* when a directory is, and opens the file otherwise; every read after a
\* failed one does the same, so none is served from the cache before a read
\* has succeeded, and a path that is no file leaves the entry without content.
ReadErrors ==
    [][\A path \in Paths :
          LET reads == ReadsOf(hist', path)
              cold == \/ ~HasFile(files, path)
                      \/ File(World, path).cache.k # "full"
                      \/ DispatchOf(hist', path)
          IN  (fs'[path] = fs[path]) =>
                /\ \A n \in reads :
                      /\ hist'[n].e = "read_failed" =>
                            /\ ~isfile(fs, path)
                            /\ hist'[n].error =
                                  IF exists(fs, path) THEN "IOError" ELSE "FileNotFoundError"
                      /\ hist'[n].e = "io.open" => isfile(fs, path)
                      /\ (cold /\ hist'[n].e = "cached") =>
                            \E m \in reads : m < n /\ hist'[m].e = "io.open"
                /\ (cold /\ reads # {} /\ ~isfile(fs, path) /\ HasFile(files', path)) =>
                      files'[FileIdx(files', path)].cache = EmptyCache]_vars

\* C15 happens: an entry made for a path where nothing was (its watch is not
\* armed, the parse that failed on it left its subscriber behind) has been read
\* from the file created since
ReadRetried ==
    \E n \in Entries("io.open") :
        /\ HasFile(files, hist[n].path)
        /\ ~File(World, hist[n].path).notifier
        /\ Len(File(World, hist[n].path).on_change_event) >= 2
        /\ File(World, hist[n].path).cache.k = "full"

DestinationExists == "IOError: Destination already exists"

DestinationConflict == "IOError: Destination exists and is not a file"

\* the writes to path in h that did not fail, before entry n
WritesBefore(h, path, n) ==
    {m \in EntriesIn(h, "write") : m < n /\ h[m].path = path /\ h[m].error = ""}

\* the writes to path in h that KeyboardInterrupt ended after io.open
CutShort(h, path) ==
    {m \in EntriesIn(h, "write") : h[m].path = path /\ h[m].error = "KeyboardInterrupt"}

\* what is at path when entry n of h begins, in a step that began with before
\* at the path: the content of the last write to it, if any
AtPath(h, path, n, before) ==
    IF WritesBefore(h, path, n) = {} THEN before
    ELSE h[CHOOSE m \in WritesBefore(h, path, n) :
                \A l \in WritesBefore(h, path, n) : l <= m].content

\* the step is one of the program, not of the environment
ProgramStep(h) ==
    h # <<>> /\ h[1].e \notin {"edit", "remove_file", "create_file", "move_file"}

\* C16: Every write of a program step fails with 'Destination already exists'
\* exactly when a file is at the path and the flag is false, with 'Destination
\* exists and is not a file' exactly when a directory is at the path, whatever
\* the flag, and otherwise succeeds where the directory of the path is missing
\* or a directory.  After the step every path holds the content of the last
\* write to it that succeeded, the directory of such a path is a directory, and
\* every other path, among them the paths of the failed writes, is as it was.
\* This is of the writes that return or raise IOError; the write that
\* KeyboardInterrupt ends before f.write leaves its file open and empty.
WriteContract ==
    [][ProgramStep(hist') =>
          /\ \A n \in EntriesIn(hist', "write") :
                LET en == hist'[n] IN
                /\ en.was = AtPath(hist', en.path, n, fs[en.path])
                /\ en.error # "KeyboardInterrupt" =>
                      /\ en.error = DestinationExists <=>
                            (en.was \notin {Missing, Directory} /\ ~en.force)
                      /\ en.error = DestinationConflict <=> en.was = Directory
                      /\ en.dir_was \in {Missing, Directory} =>
                            en.error \in {"", DestinationExists, DestinationConflict}
          /\ \A path \in Paths :
                fs'[path] =
                    IF CutShort(hist', path) # {}
                    THEN Truncated
                    ELSE IF WritesBefore(hist', path, Len(hist') + 1) # {}
                    THEN AtPath(hist', path, Len(hist') + 1, fs[path])
                    ELSE IF \E inside \in Paths :
                               /\ WritesBefore(hist', inside, Len(hist') + 1)
                                     \cup CutShort(hist', inside) # {}
                               /\ dirname(inside) = path
                    THEN Directory
                    ELSE fs[path]]_vars

\* C16 happens: in one step a write made the missing directory of its path and
\* the file in it, and a write with the flag set failed on a directory
WroteAndRefused ==
    /\ \E n \in Entries("write") :
          /\ hist[n].error = "" /\ hist[n].dir_was = Missing
          /\ fs[dirname(hist[n].path)] = Directory
          /\ fs[hist[n].path] = hist[n].content
    /\ \E n \in Entries("write") :
          /\ hist[n].error = DestinationConflict /\ hist[n].force
          /\ fs[hist[n].path] = Directory

\* merged is x overlaid with y as C17 has it: the keys of both; a key of one
\* side keeps its value; for a key of both sides the recursive merge when both
\* values are dicts, and the value of y in every other case
RECURSIVE Overlaid(_, _, _)
Overlaid(merged, x, y) ==
    /\ DOMAIN merged = DOMAIN x \cup DOMAIN y
    /\ \A key \in DOMAIN merged :
          IF key \notin DOMAIN y THEN merged[key] = x[key]
          ELSE IF key \notin DOMAIN x THEN merged[key] = y[key]
          ELSE IF IsDict(x[key]) /\ IsDict(y[key])
               THEN IsDict(merged[key]) /\ Overlaid(merged[key].v, x[key].v, y[key].v)
               ELSE merged[key] = y[key]

\* C17: merge_dicts(x, y) returns, for all dicts x and y, a dict with the keys
\* of both in which a key of one side keeps its value and a key of both sides
\* holds the recursive merge when both values are dicts and the value of y for
\* every other pair of values: a dict over an int, an int over a dict, a list
\* over a list, None over anything.
MergeSemantics ==
    \A n \in Entries("merge_dicts") :
        /\ hist[n].raised = ""
        /\ Overlaid(hist[n].result.v, hist[1].x, hist[1].y)

\* value is a string, of type str or of a subclass of it, with the placeholder in it
IsOmitString(value) == value.k \in {"str", "scalarstring"} /\ HasOmit(value.v)

\* value without the keys and items, at every depth, whose value is a string
\* with the placeholder in it, the other ones in their order
RECURSIVE Stripped(_)
Stripped(value) ==
    CASE value.k = "list" ->
            L(SelectSeq([j \in 1..Len(value.v) |->
                            IF IsOmitString(value.v[j]) THEN Omit ELSE Stripped(value.v[j])],
                        LAMBDA item : item # Omit))
      [] value.k = "dict" ->
            D(SelectSeq([j \in 1..Len(value.v) |->
                            IF IsOmitString(value.v[j][2]) THEN <<value.v[j][1], Omit>>
                            ELSE <<value.v[j][1], Stripped(value.v[j][2])>>],
                        LAMBDA item : item[2] # Omit))
      [] OTHER -> value

\* C18: remove_omit_from_dict returns its argument without the mapping keys and
\* sequence items, at every depth, whose value is a string with the
\* placeholder in it, the other keys and items in their order, and applied to
\* its own result it returns that result.
OmissionRemovesAll ==
    \A n \in Entries("remove_omit_from_dict") :
        /\ hist[n].result = Stripped(hist[1].result)
        /\ n > 2 => hist[n].result = hist[n - 1].result

\* the sources of a chain: the path of a file, the data of a dict without its
\* order, as thash has them
ChainShape(chain) ==
    [i \in 1..Len(chain) |->
        IF chain[i].source.k = "file" THEN <<"file", chain[i].source.path>>
        ELSE <<"dict", AsMap(chain[i].source.data)>>]

FileLayers(include_vars) == [j \in 1..Len(include_vars) |-> <<"file", include_vars[j].v>>]

VarsLayer(context) == IF DOMAIN context = {} THEN <<>> ELSE << <<"dict", context>> >>

\* the four layers named by thash, lowest first
LayersOf(thash) ==
    FileLayers(thash.v[1]) \o VarsLayer(thash.v[2])
        \o FileLayers(thash.v[3]) \o VarsLayer(thash.v[4])

\* the items of the first i elements of a chain, in the order of the chain,
\* the files as the registry fl has read them
RECURSIVE ItemsOf(_, _, _)
ItemsOf(chain, i, fl) ==
    IF i = 0 THEN <<>>
    ELSE ItemsOf(chain, i - 1, fl)
            \o (IF chain[i].source.k = "file"
                THEN load_yaml(fl[FileIdx(fl, chain[i].source.path)].cache.content)
                ELSE chain[i].source.data)

\* the value the last of the first n items that defines key gives it; an
\* expression is read with the items before it
RECURSIVE ValueIn(_, _, _)
ValueIn(items, key, n) ==
    LET last == CHOOSE m \in 1..n :
                    /\ items[m][1] = key
                    /\ \A l \in 1..n : items[l][1] = key => l <= m
    IN  IF items[last][2].k = "tpl"
        THEN _evaluate_string(ToStr(ValueIn(items, items[last][2].v, last - 1)))
        ELSE items[last][2]

\* C19: The chain of every unit a parse installs anew has the sources thash
\* names, in the order global include_vars files, global vars, unit
\* include_vars files, unit vars, the files in their listed order and an empty
\* vars left out.  Where the parse has computed the context of the unit, every
\* key of a layer holds the value of the highest layer that defines it, and an
\* expression in a layer has read the keys as the layers up to it define them.
LayerPrecedence ==
    [][\A thash \in DOMAIN templates' \ DOMAIN templates :
          LET chain == units'[templates'[thash]].chain
              items == ItemsOf(chain, Len(chain), files')
          IN  /\ ChainShape(chain) = LayersOf(thash)
              /\ (Len(chain) > 0 /\ chain[Len(chain)].cache.k # "none") =>
                    \A n \in 1..Len(items) :
                        /\ items[n][1] \in DOMAIN chain[Len(chain)].cache.v
                        /\ chain[Len(chain)].cache.v[items[n][1]]
                              = ValueIn(items, items[n][1], Len(items))]_vars

\* C19 happens: a unit with all four layers, two global files among them, is
\* installed; 'a' is what the unit vars say, 'c' what the global vars said of
\* 'a', 'd' what the first global file said of 'a'
FourLayers ==
    \E u \in Installed :
        /\ Len(units[u].chain) = 5
        /\ HasMerged(u)
        /\ Merged(u)["a"] = S("uv")
        /\ Merged(u)["c"] = S("gv")
        /\ Merged(u)["d"] = S("gf")
        /\ Merged(u)["e"] = S("gv")
        /\ \E n \in Entries("process") : hist[n].result

\* the paths of the definition files processed in a history, in order
RECURSIVE Processed(_)
Processed(h) ==
    IF h = <<>> THEN <<>>
    ELSE (IF Head(h).e = "process" THEN <<Head(h).path>> ELSE <<>>) \o Processed(Tail(h))

\* C20: The first step of start processes every definition file once, in the
\* order given, whether or not one fails, and before any poll; it leaves the
\* program polling.  A polling program stays polling unless it is interrupted:
\* a step in which a handler raised leaves it polling.  A stopped program
\* polls nothing, dispatches nothing, renders nothing and keeps its registry,
\* its units and the files it wrote as they are.  The interrupt is the step
\* of SIGINT between two dispatches or the dispatch SIGINT arrives in.
LoopLifecycle ==
    [][/\ (pc = "init" /\ auto_render) =>
            /\ pc' = "watch"
            /\ Processed(hist') = Definitions(scenario)
            /\ EntriesIn(hist', "poll") \cup EntriesIn(hist', "event") = {}
       /\ pc' = "init" => pc = "init"
       /\ pc = "watch" =>
            /\ pc' \in {"watch", "stopped"}
            /\ pc' = "stopped" <=>
                  \/ hist' = <<[e |-> "cancel"]>>
                  \/ EntriesIn(hist', "KeyboardInterrupt") # {}
            /\ EntriesIn(hist', "break") # {} => pc' = "watch"
       /\ pc = "stopped" =>
            /\ pc' = "stopped"
            /\ hist'[1].e = "edit"
            /\ UNCHANGED <<files, poll, units, templates, changed_templates>>
            /\ \A path \in Paths : fs'[path] # fs[path] => path = hist'[1].path]_vars

\* C20 happens: the program was interrupted in the middle of a poll cycle, a
\* notification is left unread and the file has been rewritten again since
StoppedWithUnread ==
    /\ pc = "stopped"
    /\ poll # <<>>
    /\ pending # {}
    /\ hist[1].e = "edit"
    /\ hist[1].path \in pending

\* a path given on the command line as a definition file
IsDefinition(path) ==
    \E j \in 1..Len(Definitions(scenario)) : Definitions(scenario)[j] = path

\* the paths the running cycle has still to check
StillToPoll(remaining) == {remaining[j] : j \in 1..Len(remaining)}

\* C21: In every poll cycle the pending change of a definition file is
\* dispatched before the pending change of any other file polled in that
\* cycle, and the dispatch holds the whole reconciliation: when the content
\* changed the definition is processed within the dispatch, and afterwards no
\* file the cycle has still to check holds a handler of a unit the re-parse
\* disposed of, so no later change of the cycle renders such a unit.
ManifestFirst ==
    [][(hist' # <<>> /\ hist'[1].e = "event") =>
          /\ ~IsDefinition(hist'[1].path) =>
                \A q \in StillToPoll(poll) : IsDefinition(q) => q \notin pending
          /\ IsDefinition(hist'[1].path) =>
                /\ (\E n \in EntriesIn(hist', "changed") : hist'[n].old # hist'[n].new)
                      => \E n \in EntriesIn(hist', "process") :
                            hist'[n].path = hist'[1].path
                /\ \A n \in EntriesIn(hist', "event") : n = 1
                /\ \A u \in Dropped : \A q \in StillToPoll(poll') :
                      HandlersOf(files', q, u) = <<>>]_vars

\* C21 happens: the dispatch of the definition file has disposed of a unit
\* while the cycle has still to check a file whose change is pending
ManifestHandledFirst ==
    /\ Dispatched
    /\ hist[1].path = DefinitionPath
    /\ Entries("remove") # {}
    /\ \E q \in StillToPoll(poll) : q \in pending /\ ~IsDefinition(q)

\* the registry entry of path holds {}: its last read failed
LastReadLeftNothing(path) == HasFile(files, path) /\ File(World, path).cache.k = "empty"

\* C22: The loop goes on after a failed notification, and a later
\* notification of the same file, when a file is at the path again, is handled
\* as any other: an entry whose last read failed is re-read from the
\* filesystem and no error ends the dispatch before that; a definition file
\* that did not parse is re-read and, when its content differs, processed.
\* A dispatch that SIGINT arrives in is left aside.
WatchRecovers ==
    [][(/\ hist' # <<>> /\ hist'[1].e = "event" /\ isfile(fs, hist'[1].path)
        /\ EntriesIn(hist', "KeyboardInterrupt") = {}) =>
          /\ pc' = "watch"
          /\ LastReadLeftNothing(hist'[1].path) =>
                /\ \E n \in EntriesIn(hist', "io.open") : hist'[n].path = hist'[1].path
                /\ \E n \in EntriesIn(hist', "changed") : hist'[n].path = hist'[1].path
          /\ (IsDefinition(hist'[1].path)
                 /\ \E n \in EntriesIn(hist', "changed") : hist'[n].old # hist'[n].new)
                => \E n \in EntriesIn(hist', "process") : hist'[n].path = hist'[1].path]_vars

\* C23: A cancellation takes effect between poll iterations only: the step
\* that stops the loop holds no dispatch, and no render is ended by
\* KeyboardInterrupt, so every render that read its source has written its
\* destination or failed by an error of its own.
RenderRunsToEnd ==
    [][/\ (pc = "watch" /\ pc' = "stopped") => EntriesIn(hist', "event") = {}
       /\ \A n \in EntriesIn(hist', "render") : hist'[n].error # "KeyboardInterrupt"]_vars

\* the render entries of a history, in order
RendersIn(h) == SelectSeq(h, LAMBDA entry : entry.e = "render")

\* C24: When a parse of the definition file succeeded, the renders of the
\* step are those of the units the parse marked, one per mark and in the
\* order of the marks, whether or not one of them failed; process returns
\* true if and only if every one of them returned true; no unit carried over
\* from the map before the parse is rendered.
RenderChangedCoversAll ==
    [][\A n \in EntriesIn(hist', "process") :
          (hist'[n].path = DefinitionPath /\ hist'[n].error = "") =>
             /\ Len(RendersIn(hist')) = Len(changed_templates')
             /\ \A j \in 1..Len(changed_templates') :
                   RendersIn(hist')[j].u = templates'[changed_templates'[j]]
             /\ hist'[n].result <=>
                   \A j \in 1..Len(RendersIn(hist')) : RendersIn(hist')[j].result
             /\ \A thash \in DOMAIN templates \cap DOMAIN templates' :
                   /\ templates'[thash] = templates[thash]
                   /\ \A j \in 1..Len(RendersIn(hist')) :
                         RendersIn(hist')[j].u # templates[thash]]_vars

\* C24 happens: a re-parse marked two units and carried one over; the render
\* of the first marked unit failed, the second one was rendered all the same
\* and process returned false
RenderedPastFailure ==
    /\ Dispatched
    /\ hist[1].path = DefinitionPath
    /\ \E n \in Entries("process") : hist[n].error = "" /\ ~hist[n].result
    /\ Len(RendersIn(hist)) = 2
    /\ ~RendersIn(hist)[1].result
    /\ RendersIn(hist)[2].result
    /\ \E u \in Installed : RendersOf(u) = {}

\* the render entries of history h between entry m and entry n
RendersBetween(h, m, n) == {k \in EntriesIn(h, "render") : m < k /\ k < n}

\* the process entry before entry n of history h, 0 if there is none
ProcessBefore(h, n) ==
    IF \E m \in EntriesIn(h, "process") : m < n
    THEN CHOOSE m \in EntriesIn(h, "process") :
            m < n /\ \A l \in EntriesIn(h, "process") : l < n => l <= m
    ELSE 0

\* C25: A run without --auto-render processes every definition file, in the
\* order given and whether or not an earlier one failed; process returns false
\* if and only if the file did not parse or a render of one of its units
\* returned false; the run ends with exit(1) if and only if some process
\* returned false, else with exit(0).
OneShotResult ==
    [][(pc = "init" /\ ~auto_render) =>
          /\ Processed(hist') = Definitions(scenario)
          /\ \A n \in EntriesIn(hist', "process") :
                ~hist'[n].result <=>
                   \/ hist'[n].error # ""
                   \/ \E k \in RendersBetween(hist', ProcessBefore(hist', n), n) :
                         ~hist'[k].result
          /\ pc' \in {"exit(0)", "exit(1)"}
          /\ pc' = "exit(1)" <=> \E n \in EntriesIn(hist', "process") : ~hist'[n].result
          /\ hist'[Len(hist')] = [e |-> "exit", code |-> IF pc' = "exit(1)" THEN 1 ELSE 0]]_vars

\* C25 happens: the first definition file did not parse, the second one was
\* processed all the same and rendered its unit, and the run ended with exit(1)
FailedYetProcessedAll ==
    /\ pc = "exit(1)"
    /\ Processed(hist) = <<OtherDefinitionPath, DefinitionPath>>
    /\ \E n \in Entries("process") : hist[n].path = OtherDefinitionPath /\ ~hist[n].result
    /\ \E n \in Entries("process") : hist[n].path = DefinitionPath /\ hist[n].result
    /\ \E n \in Entries("render") : hist[n].result

\* the entries of history h that are a computation for an instance: a render,
\* a change handled by a chain element, a context computed
WorkIn(h) == {n \in 1..Len(h) : h[n].e \in {"render", "element", "_create_context"}}

\* C26: Template.remove leaves no handler of the unit in the on_change_event
\* of any file, neither Template.render nor the _on_change of an element of
\* its chain; nothing refers to the unit after the step, the rest of the step
\* computes nothing for it, and a later change of a file that is no
\* definition file reaches only instances that were subscribed to that file
\* when it was dispatched.
DisposeIsFinal ==
    [][/\ \A n \in EntriesIn(hist', "remove") :
             /\ hist'[n].u \in DOMAIN units
             /\ \A path \in Paths : HandlersOf(files', path, hist'[n].u) = <<>>
             /\ hist'[n].u \notin DOMAIN units'
             /\ \A m \in WorkIn(hist') : m > n => hist'[m].u # hist'[n].u
       /\ (hist' # <<>> /\ hist'[1].e = "event" /\ ~IsDefinition(hist'[1].path)) =>
             \A m \in WorkIn(hist') :
                /\ hist'[m].u \in DOMAIN units
                /\ ~units[hist'[m].u].removed
                /\ HandlersOf(files, hist'[1].path, hist'[m].u) # <<>>]_vars

\* C26 happens: a unit that watched its template file and two variable files
\* was removed, and no instance is left that a change of a file could reach
\* through a handler of it
UnitDisposed ==
    \E n \in Entries("remove") :
        /\ Cardinality(hist[n].watched) >= 3
        /\ hist[n].u \notin DOMAIN units
        /\ \A path \in hist[n].watched : HandlersOf(files, path, hist[n].u) = <<>>

\* the rules of the definition file, as the specification words them: vars is a
\* mapping, include_vars a string or a list
BadOptions(items) ==
    \/ \E j \in 1..Len(items) : items[j][1] = "vars" /\ items[j][2].k # "dict"
    \/ \E j \in 1..Len(items) :
          items[j][1] = "include_vars" /\ items[j][2].k \notin {"str", "list"}

\* 'templates' is missing or no list, or an option of the top level is bad
BadTop(doc) ==
    \/ \A j \in 1..Len(doc) : doc[j][1] # "templates"
    \/ \E j \in 1..Len(doc) : doc[j][1] = "templates" /\ doc[j][2].k # "list"
    \/ BadOptions(doc)

\* a unit lacks 'src' or 'dest', or one of them is no string, or an option is bad
BadUnit(t) ==
    \/ \A j \in 1..Len(t.v) : t.v[j][1] # "src"
    \/ \A j \in 1..Len(t.v) : t.v[j][1] # "dest"
    \/ \E j \in 1..Len(t.v) :
          t.v[j][1] \in {"src", "dest"} /\ t.v[j][2].k \notin {"str", "tpl"}
    \/ BadOptions(t.v)

\* the units a document declares, none if 'templates' is no list
UnitsOf(doc) ==
    IF \E j \in 1..Len(doc) : doc[j][1] = "templates" /\ doc[j][2].k = "list"
    THEN (doc[CHOOSE j \in 1..Len(doc) : doc[j][1] = "templates"])[2].v
    ELSE <<>>

BadDocument(doc) == BadTop(doc) \/ \E j \in 1..Len(UnitsOf(doc)) : BadUnit(UnitsOf(doc)[j])

\* the include_vars of options given by their items, as a list of paths
IncludedBy(items) ==
    IF \E j \in 1..Len(items) : items[j][1] = "include_vars"
    THEN With((items[CHOOSE j \in 1..Len(items) : items[j][1] = "include_vars"])[2],
              LAMBDA value : IF value.k = "str" THEN <<value.v>>
                             ELSE [j \in 1..Len(value.v) |-> value.v[j].v])
    ELSE <<>>

\* the paths of the file elements of the chain of unit u, in order
ChainFiles(u) ==
    With(SelectSeq(units[u].chain, LAMBDA elm : elm.source.k = "file"), LAMBDA elms :
        [j \in 1..Len(elms) |-> elms[j].source.path])

\* the document the parse of this step read, if the step parsed the
\* definition file and the file held a YAML document
ParsedDocument == fs["M"].v

ParsedInStep ==
    /\ scenario = "documents"
    /\ fs["M"].k = "yaml"
    /\ \E n \in Entries("process") : hist[n].path = DefinitionPath

ProcessError == hist[CHOOSE n \in Entries("process") : hist[n].path = DefinitionPath].error

SchemaRules ==
    ParsedInStep =>
       /\ BadDocument(ParsedDocument) => ProcessError # ""
       /\ (BadTop(ParsedDocument) \/ BadUnit(UnitsOf(ParsedDocument)[1]))
             => ProcessError = "ValueError"
       /\ ProcessError = "ValueError" => BadDocument(ParsedDocument)
       /\ ProcessError = "" =>
             /\ \A j \in 1..Len(UnitsOf(ParsedDocument)) :
                   \E thash \in DOMAIN templates :
                      /\ thash.v[1] = [n \in 1..Len(IncludedBy(ParsedDocument)) |->
                                         S(IncludedBy(ParsedDocument)[n])]
                      /\ thash.v[3] = [n \in 1..Len(IncludedBy(UnitsOf(ParsedDocument)[j].v)) |->
                                         S(IncludedBy(UnitsOf(ParsedDocument)[j].v)[n])]
                      /\ ChainFiles(templates[thash])
                            = IncludedBy(ParsedDocument)
                                 \o IncludedBy(UnitsOf(ParsedDocument)[j].v)

BareStringParsed ==
    /\ ParsedInStep
    /\ ProcessError = ""
    /\ \E j \in 1..Len(UnitsOf(ParsedDocument)) :
          \E n \in 1..Len(UnitsOf(ParsedDocument)[j].v) :
             UnitsOf(ParsedDocument)[j].v[n] = <<"include_vars", S("F")>>
    /\ \E u \in Installed : ChainFiles(u) = <<"F">>
    /\ Dispatched

UnitHandlers ==
    UNION {{files[j].on_change_event[n] : n \in 1..Len(files[j].on_change_event)} :
              j \in 1..Len(files)}
        \ {DefHandler, OtherDefHandler}

\* C28: Every handler of a unit that is subscribed to a file of the registry
\* belongs to a unit of Definition.templates, and every file of the registry
\* has a subscriber that is a definition or such a unit.
NoOrphanSubscribers ==
    /\ \A handler \in UnitHandlers : handler.u \in Installed
    /\ \A j \in 1..Len(files) :
          \E n \in 1..Len(files[j].on_change_event) :
             \/ files[j].on_change_event[n] \in {DefHandler, OtherDefHandler}
             \/ files[j].on_change_event[n].u \in Installed

\* the vars of options given by their items, empty if there are none
VarsOf(items) ==
    IF \E j \in 1..Len(items) : items[j][1] = "vars" /\ items[j][2].k = "dict"
    THEN (items[CHOOSE j \in 1..Len(items) : items[j][1] = "vars"])[2].v
    ELSE <<>>

\* the document declares a unit and no variables at all
NoVariables(doc) ==
    /\ ~BadDocument(doc)
    /\ Len(UnitsOf(doc)) = 1
    /\ IncludedBy(doc) = <<>> /\ VarsOf(doc) = <<>>
    /\ IncludedBy(UnitsOf(doc)[1].v) = <<>> /\ VarsOf(UnitsOf(doc)[1].v) = <<>>

\* C29: A definition file that declares a unit and no variables parses: the
\* unit is installed, has a chain without elements, and is rendered with the
\* empty context.
EmptyChainRenders ==
    (ParsedInStep /\ NoVariables(ParsedDocument)) =>
       /\ ProcessError = ""
       /\ \E u \in Installed : units[u].chain = <<>>
       /\ \E n \in Entries("render") : hist[n].result

\* C30: When the try block of _create_context raises, for YAML that does not
\* load or a value that does not render or merge, the error names the path of
\* the source of the element, which in the dispatch of a file is that file;
\* an element that held a context holds the same context and the same
\* cache_hash afterwards, and an element computed for the first time holds
\* none, so that get_context computes it again.
RecomputeAtomic ==
    [][\A n \in EntriesIn(hist', "Exception") :
          /\ (hist'[1].e = "event" /\ ~IsDefinition(hist'[1].path))
                => hist'[n].path = hist'[1].path
          /\ hist'[n].u \in DOMAIN units' =>
                hist'[n].path = units'[hist'[n].u].chain[hist'[n].i].source.path
          /\ hist'[n].u \in DOMAIN units =>
                /\ hist'[n].u \in DOMAIN units'
                /\ units'[hist'[n].u].chain[hist'[n].i].cache
                      = units[hist'[n].u].chain[hist'[n].i].cache
                /\ units'[hist'[n].u].chain[hist'[n].i].cache_hash
                      = units[hist'[n].u].chain[hist'[n].i].cache_hash
          /\ (hist'[n].u \notin DOMAIN units /\ hist'[n].u \in DOMAIN units') =>
                /\ units'[hist'[n].u].chain[hist'[n].i].cache = None
                /\ units'[hist'[n].u].chain[hist'[n].i].cache_hash = None]_vars

\* C30 happens: the variable file of an installed unit was rewritten with
\* text that is no YAML; the recomputation failed and the element holds the
\* context it had
RecomputeFailed ==
    /\ Dispatched
    /\ hist[1].path = "F"
    /\ fs["F"] = BadYaml
    /\ \E n \in Entries("Exception") :
          /\ hist[n].u \in Installed
          /\ units[hist[n].u].chain[hist[n].i].cache.k = "dict"
          /\ units[hist[n].u].chain[hist[n].i].cache_hash # None

\* process_events of the notifier of path was the last step
DispatchedTo(path) == Dispatched /\ hist[1].path = path

\* the last step was a dispatch that an exception of a handler ended, and with
\* it the poll cycle
CycleBroken == Entries("break") # {}

RendersThatWrote(h) == {n \in EntriesIn(h, "render") : n > 1 /\ h[n - 1].e = "write"}

\* C32: In every dispatch of a content change, a render whose destination
\* holds a file, as it does once the unit has written it, is refused without
\* the overwrite flag: the write fails with 'Destination already exists', the
\* render returns false and the destination keeps the content it had.  With
\* the flag the write succeeds, the render returns true and the destination
\* holds the new output.  A render returns true only if its write succeeded.
RerenderPolicy ==
    [][(hist' # <<>> /\ hist'[1].e = "event") =>
          /\ \A n \in RendersThatWrote(hist') :
                (hist'[n - 1].was \notin {Missing, Directory}) =>
                    IF hist'[n - 1].force
                    THEN /\ hist'[n - 1].error = ""
                         /\ hist'[n].result
                         /\ fs'[hist'[n - 1].path]
                               = AtPath(hist', hist'[n - 1].path, Len(hist') + 1, fs[hist'[n - 1].path])
                         /\ \E m \in n - 1 .. Len(hist') :
                               /\ hist'[m].e = "write" /\ hist'[m].error = ""
                               /\ hist'[m].path = hist'[n - 1].path
                               /\ fs'[hist'[n - 1].path] = hist'[m].content
                    ELSE /\ hist'[n - 1].error = DestinationExists
                         /\ ~hist'[n].result
                         /\ hist'[n].error = DestinationExists
                         /\ fs'[hist'[n - 1].path] = hist'[n - 1].was
          /\ \A n \in EntriesIn(hist', "render") :
                hist'[n].result => n \in RendersThatWrote(hist') /\ hist'[n - 1].error = ""]_vars

\* C32 happens: without the flag, the change of a variable file was
\* dispatched, the render computed another output than the one the destination
\* holds, was refused and returned false, and the destination is as it was
RerenderRefused ==
    /\ Dispatched
    /\ ~Scenario(scenario).force_overwrite
    /\ \E n \in RendersThatWrote(hist) :
          /\ hist[n - 1].error = DestinationExists
          /\ ~hist[n].result
          /\ hist[n - 1].content # hist[n - 1].was
          /\ fs[hist[n - 1].path] = hist[n - 1].was

\* the registry holds every file it has read as the file is on disk
FilesAsRead ==
    \A j \in 1..Len(files) :
        files[j].cache.k = "full" => files[j].cache.content = fs[files[j].path]

\* the version of the definition file the last parse has read
VersionRead == File(World, DefinitionPath).cache.content.v

\* a unit built from entry t of that version as _parse builds a new one
Rebuilt(t) ==
    BuildTemplate(World, NewId(World), _parse_variable_options(VersionRead),
                  _parse_variable_options(t.v), Get(t.v, "src"), Get(t.v, "dest"),
                  DefinitionPath)

\* what unit u computes in world w: its merged context, its source path and
\* its destination path, each one with whether it could be computed
Computed(w, u) ==
    [context_ok |-> ChainGetContext(w, u).ok,
     context |-> IF ChainGetContext(w, u).ok THEN NoOmit(ChainGetContext(w, u).v)
                 ELSE EmptyDict,
     src_ok |-> _create_path(w, u, w.units[u].src).ok,
     src |-> IF _create_path(w, u, w.units[u].src).ok
             THEN _create_path(w, u, w.units[u].src).v ELSE "",
     dest_ok |-> _create_path(w, u, w.units[u].dest).ok,
     dest |-> IF _create_path(w, u, w.units[u].dest).ok
              THEN _create_path(w, u, w.units[u].dest).v ELSE ""]

\* C33: Whenever the version of the definition file that was parsed last
\* gives an entry the fingerprint of an installed unit, and the files are on
\* disk as the unit has read them, a unit built anew from that entry can be
\* built and computes the merged context, the source path and the destination
\* path that the installed unit computes.
FingerprintReuseSound ==
    (/\ HasFile(files, DefinitionPath)
     /\ File(World, DefinitionPath).cache.k = "full"
     /\ File(World, DefinitionPath).cache.content.k = "yaml"
     /\ ~BadTop(VersionRead)
     /\ FilesAsRead) =>
        \A thash \in DOMAIN templates : \A j \in 1..Len(UnitsOf(VersionRead)) :
            (/\ ~BadUnit(UnitsOf(VersionRead)[j])
             /\ TemplateHash(_parse_variable_options(VersionRead),
                             _parse_variable_options(UnitsOf(VersionRead)[j].v),
                             Get(UnitsOf(VersionRead)[j].v, "src"),
                             Get(UnitsOf(VersionRead)[j].v, "dest")) = thash
             /\ HasMerged(templates[thash])
             /\ FreshMerged(templates[thash]).ok
             /\ NoOmit(FreshMerged(templates[thash]).v) = NoOmit(Merged(templates[thash])))
            => /\ Rebuilt(UnitsOf(VersionRead)[j]).ok
               /\ Computed(Rebuilt(UnitsOf(VersionRead)[j]).w,
                           Rebuilt(UnitsOf(VersionRead)[j]).v)
                     = Computed(World, templates[thash])

\* the handler Definition.__init__ subscribes to the entry of its file
DefinitionHandler(path) == IF path = DefinitionPath THEN DefHandler ELSE OtherDefHandler

\* the registry fl holds the entry of every definition file where cli has put
\* it, with the handler of its Definition subscribed and, in watch mode, its
\* watch armed
ManifestsIn(fl) ==
    \A j \in 1..Len(Definitions(scenario)) :
        /\ j <= Len(fl)
        /\ fl[j].path = Definitions(scenario)[j]
        /\ \E n \in 1..Len(fl[j].on_change_event) :
              fl[j].on_change_event[n] = DefinitionHandler(fl[j].path)
        /\ fl[j].notifier = auto_render

\* C34: From the construction of the Definitions on, the registry holds the
\* entry of every definition file with the handler of its Definition
\* subscribed and its watch armed: every cleanup_unused_files, whichever
\* parse runs it, keeps these entries as they are, and the dispatch of a
\* definition file whose content has changed calls process of its Definition.
ManifestNeverEvicted ==
    /\ ManifestsIn(files)
    /\ [][/\ ManifestsIn(files')
          /\ \A n \in EntriesIn(hist', "cleanup") :
                /\ ManifestsIn(hist'[n].before)
                /\ ManifestsIn(hist'[n].after)
          /\ (/\ hist' # <<>> /\ hist'[1].e = "event" /\ IsDefinition(hist'[1].path)
              /\ \E n \in EntriesIn(hist', "changed") : hist'[n].old # hist'[n].new)
                => \E n \in EntriesIn(hist', "process") :
                      /\ hist'[n].path = hist'[1].path
                      /\ \E m \in EntriesIn(hist', "call") :
                            m < n /\ hist'[m].handler = DefinitionHandler(hist'[1].path)]_vars

\* C34 happens: a cleanup has evicted an entry without subscribers and the
\* entries of the definition files are in the registry
ManifestOutlivesCleanup ==
    /\ Dispatched
    /\ ManifestsIn(files)
    /\ \E n \in Entries("cleanup") : Len(hist[n].after) < Len(hist[n].before)

\* the paths of the entries of the registry fl
PathsIn(fl) == {fl[j].path : j \in 1..Len(fl)}

\* the notifier of every entry a cleanup of the last step has evicted has been
\* stopped, and of no entry it has kept
EvictedAreStopped ==
    \A n \in Entries("cleanup") :
        hist[n].stopped = IF auto_render THEN PathsIn(hist[n].before) \ PathsIn(hist[n].after)
                          ELSE {}

ComputationsOf(h, u, i) ==
    {n \in EntriesIn(h, "_create_context") : h[n].u = u /\ h[n].i = i}

\* the runs of _on_change of element i of unit u in h whose _create_context
\* returned
NotificationsOf(h, u, i) ==
    {n \in EntriesIn(h, "element") : h[n].u = u /\ h[n].i = i /\ h[n].ok}

\* element i of unit u holds a memoized context
Memoized(u, i) ==
    /\ u \in DOMAIN units
    /\ i \in 1..Len(units[u].chain)
    /\ units[u].chain[i].cache.k # "none"

\* C36: Besides the one computation that each run of its _on_change makes,
\* an element is computed only on demand: in a step at most once, when it
\* holds no memoized context, and before every element after it that the step
\* computes on demand; an element that holds a memoized context is computed by
\* its _on_change only, however many get_context calls the renders of the
\* step make. A computation opens the source file only if the registry entry
\* holds no content, and a step opens a file at most once.
LazyMemoization ==
    [][\A n \in EntriesIn(hist', "_create_context") :
          LET u == hist'[n].u
              i == hist'[n].i
              computed == ComputationsOf(hist', u, i)
              notified == NotificationsOf(hist', u, i)
          IN  /\ Cardinality(computed) <= Cardinality(notified) + 1
              /\ Memoized(u, i) => Cardinality(computed) <= Cardinality(notified)
              /\ (notified = {} /\ i > 1) =>
                    \/ Memoized(u, i - 1)
                    \/ \E m \in ComputationsOf(hist', u, i - 1) : m < n
              /\ \A path \in Paths :
                    Cardinality({m \in EntriesIn(hist', "io.open") : hist'[m].path = path}) <= 1]_vars

\* C36 happens: the dispatch of a change of a template file has rendered a
\* unit that has a chain of two elements or more, and no context was computed
\* for the get_context calls of the render
MemoizedContextServed ==
    /\ Dispatched
    /\ Entries("_create_context") = {}
    /\ \E n \in Entries("render") :
          /\ hist[n].result
          /\ hist[n].u \in DOMAIN units
          /\ Len(units[hist[n].u].chain) >= 2
          /\ \A i \in 1..Len(units[hist[n].u].chain) : Memoized(hist[n].u, i)

\* C36 happens on demand: the first pass has computed every element of a chain
\* of two elements or more once, the tail after its ancestors, and rendered
\* the unit
ComputedOnDemandOnce ==
    /\ hist # <<>>
    /\ ~Dispatched
    /\ \E n \in Entries("render") :
          /\ hist[n].result
          /\ hist[n].u \in DOMAIN units
          /\ Len(units[hist[n].u].chain) >= 2
          /\ \A i \in 1..Len(units[hist[n].u].chain) :
                Cardinality(ComputationsOf(hist, hist[n].u, i)) = 1

\* value is an expression that renders to text with the placeholder in it
Sentinel(value, context) ==
    /\ value.k = "tpl"
    /\ value.v \in DOMAIN WithOmit(context)
    /\ HasOmit(ToStr(WithOmit(context)[value.v]))

\* what is stored for an item of the sources above that is no sentinel: a
\* plain value as it is, '{{ v }}' as the str of v, a container without its
\* sentinels
StoredFor(item, context) ==
    CASE item = L(<<Tpl("omit"), I(1)>>) -> L(<<I(1)>>)
      [] item = D(<< <<"d", Tpl("omit")>> >>) -> AsDict(EmptyDict)
      [] item.k = "tpl" -> S(ToStr(context[item.v]))
      [] OTHER -> item

\* the items of a list of a source that are stored, in order
StoredItems(items, context) ==
    LET kept == SelectSeq(items, LAMBDA item : ~Sentinel(item, context))
    IN  [j \in 1..Len(kept) |-> StoredFor(kept[j], context)]

\* C37: When render_dict_and_add_to_context returns, a top-level key whose
\* value rendered to the sentinel has in the merged context exactly what the
\* predecessor's context had for it, or is no key of it; a sentinel item of a
\* list and a sentinel key of a nested mapping are dropped from their
\* container (the nested mapping is then merged into the predecessor's); every
\* other key holds its rendered value, and the keys of the predecessor that
\* the source does not name are kept.
OmitInVariableSource ==
    \A n \in Entries("render_dict_and_add_to_context") :
        hist[n].ok =>
            LET src == AsMap(hist[1].the_dict)
                ctx == hist[1].context
                res == hist[n].result
                stored == {key \in DOMAIN src : ~Sentinel(src[key], ctx)}
            IN  /\ \A key \in DOMAIN src \ stored :
                      IF key \in DOMAIN ctx
                      THEN key \in DOMAIN res /\ res[key] = ctx[key]
                      ELSE key \notin DOMAIN res
                /\ DOMAIN res \ {"omit"} = (DOMAIN ctx \ {"omit"}) \cup stored
                /\ \A key \in DOMAIN ctx \ DOMAIN src : res[key] = ctx[key]
                /\ "a" \in stored => res["a"] = StoredFor(src["a"], ctx)
                /\ "f" \in stored => res["f"] = L(StoredItems(src["f"].v, ctx))
                /\ "c" \in stored =>
                      LET inner == AsMap(src["c"].v)
                          prior == IF "c" \in DOMAIN ctx THEN ctx["c"].v ELSE EmptyDict
                      IN  /\ res["c"].k = "dict"
                          /\ \A key \in {"d", "e"} :
                                IF key \in DOMAIN inner /\ ~Sentinel(inner[key], ctx)
                                THEN /\ key \in DOMAIN res["c"].v
                                     /\ res["c"].v[key] = StoredFor(inner[key], ctx)
                                ELSE IF key \in DOMAIN prior
                                THEN /\ key \in DOMAIN res["c"].v
                                     /\ res["c"].v[key] = prior[key]
                                ELSE key \notin DOMAIN res["c"].v

\* C37 happens: a source was rendered whose top-level key 'a' is a sentinel
\* where the predecessor has a value for 'a', and whose list 'f' and mapping
\* 'c' hold a sentinel next to a value that is stored
OmittedKeyKeepsPredecessor ==
    \E n \in Entries("render_dict_and_add_to_context") :
        /\ hist[n].ok
        /\ hist[1].the_dict =
              << <<"a", Tpl("omit")>>,
                 <<"c", D(<< <<"d", Tpl("omit")>>, <<"e", S("y")>> >>)>>,
                 <<"f", L(<<Tpl("omit"), Tpl("v")>>)>> >>
        /\ hist[1].context =
              ("a" :> S("old")) @@ ("c" :> AsDict("d" :> S("old"))) @@ ("v" :> S("val"))
        /\ NoOmit(hist[n].result) =
              ("a" :> S("old")) @@ ("c" :> AsDict(("d" :> S("old")) @@ ("e" :> S("y"))))
                 @@ ("f" :> L(<<S("val")>>)) @@ ("v" :> S("val"))

\* the writes to path that the last step has got as far as opening the file for
WritesTo(path) ==
    {n \in Entries("write") :
        hist[n].path = path /\ hist[n].error \in {"", "KeyboardInterrupt"}}

\* C38 as stated: after a step that has written to a destination, also one
\* whose write ended midway, the destination holds what it held before one of
\* the writes of the step (or is absent as it was) or the whole content of one
\* of them: never an empty or truncated file.
AtomicWrite ==
    \A path \in Paths :
        WritesTo(path) # {} =>
            \E n \in WritesTo(path) : fs[path] \in {hist[n].was, hist[n].content}

====
